---- MODULE Spec2Model ----
(***************************************************************************)
(* A model of the chat-analysis backend: the line-dialect parser, the      *)
(* noise and range filters, the snippet builder and analyze_chat_text with *)
(* its response extraction / truncation repair / coercion.                 *)
(*                                                                         *)
(* Python strings are modelled as sequences of chunks.  A chunk is a TLA+  *)
(* string standing for a run of characters that the code never splits      *)
(* (one punctuation character, one whitespace character, one word).  All   *)
(* string operations of the code (find, rfind, count, strip, slicing,      *)
(* join, len) are computed on these sequences.                             *)
(***************************************************************************)
EXTENDS Naturals, Integers, Sequences, FiniteSets, TLC

(***************************************************************************)
(* Bounds of the model.                                                    *)
(***************************************************************************)
\* how many trailing chunks a generation response may lose to truncation
MaxDrop == 3
\* how many messages a message list may hold
MaxMsgs == 3
\* the calendar days a range end may name
MaxDay == 3
\* the largest character budget of the snippet builder
MaxChars == 12
\* how many lines a WhatsApp export may hold
MaxLines == 3
\* the largest analyze_used an analysis request may start from
MaxUsed == 3
\* the largest default analysis limit
MaxLimit == 2
\* the largest feedback bonus
MaxBonus == 2
\* how many analyses the storage may hold
MaxAnalyses == 1
\* how many threads call the rate limiter at once
NThreads == 2
\* how many calls each thread makes
MaxCalls == 2
\* how many message blocks a Telegram export may hold
MaxBlocks == 3
\* how many pool threads run admin handlers beside the event loop
NPoolThreads == 1

(***************************************************************************)
(* Python values and exceptions.                                           *)
(***************************************************************************)
None == "None"

\* Generic sequence helpers (str.find / str.rfind / str.count on chunks).
MinOf(S) == CHOOSE i \in S : \A j \in S : i <= j
MaxOf(S) == CHOOSE i \in S : \A j \in S : j <= i

\* 1-based index of the first / last occurrence, 0 when there is none
Find(s, c) ==
    LET at == {i \in 1..Len(s) : s[i] = c} IN IF at = {} THEN 0 ELSE MinOf(at)

RFind(s, c) ==
    LET at == {i \in 1..Len(s) : s[i] = c} IN IF at = {} THEN 0 ELSE MaxOf(at)

Count(s, c) == Cardinality({i \in 1..Len(s) : s[i] = c})

(***************************************************************************)
(* Chunks of a generation response.                                        *)
(***************************************************************************)
QUOTE == "\""
NL == "\n"
SP == " "
\* the markdown code fence, three backticks
FENCE == "<triple-backtick>"

IsSpace(c) == c \in {SP, NL}

\* str.lstrip() / str.rstrip() / str.strip()
LStrip(s) ==
    LET solid == {i \in 1..Len(s) : ~IsSpace(s[i])}
    IN  IF solid = {} THEN <<>> ELSE SubSeq(s, MinOf(solid), Len(s))

RStrip(s) ==
    LET solid == {i \in 1..Len(s) : ~IsSpace(s[i])}
    IN  IF solid = {} THEN <<>> ELSE SubSeq(s, 1, MaxOf(solid))

Strip(s) == LStrip(RStrip(s))

\* the words whose lowercase form starts with "json" (each is 4 characters)
JsonLabels == {"json", "JSON"}

(***************************************************************************)
(* json.loads: the values.  Every value is a record of the same shape:     *)
(*   t     - "str", "num", "true", "false", "null", "arr", "obj"           *)
(*   s     - the chunks of a string, or the chunk of a number              *)
(*   keys  - the member names of an object (each a chunk sequence)         *)
(*   items - the elements of an array / the member values of an object     *)
(***************************************************************************)
JStr(s) == [t |-> "str", s |-> s, keys |-> <<>>, items |-> <<>>]
JLit(t, c) == [t |-> t, s |-> <<c>>, keys |-> <<>>, items |-> <<>>]
JArr(items) == [t |-> "arr", s |-> <<>>, keys |-> <<>>, items |-> items]
JObj(keys, items) == [t |-> "obj", s |-> <<>>, keys |-> keys, items |-> items]
JNull == JLit("null", "null")

NumberChunks == {"0", "5"}

ParseFail == [ok |-> FALSE, val |-> JNull, nxt |-> 0]
ParseOk(v, n) == [ok |-> TRUE, val |-> v, nxt |-> n]

\* the first index from i on that holds no whitespace, Len(s) + 1 if none
SkipWs(s, i) ==
    LET solid == {j \in i..Len(s) : ~IsSpace(s[j])}
    IN  IF solid = {} THEN (IF i > Len(s) THEN i ELSE Len(s) + 1) ELSE MinOf(solid)

\* index of the closing quote of a string opened before j, 0 if the string
\* is unterminated or holds a control character
ScanString(s, j) ==
    LET stops == {k \in j..Len(s) : s[k] \in {QUOTE, NL}}
    IN  IF stops = {} THEN 0
        ELSE IF s[MinOf(stops)] = QUOTE THEN MinOf(stops) ELSE 0

ParseString(s, i) ==
    LET j == ScanString(s, i + 1)
    IN  IF j = 0 THEN ParseFail ELSE ParseOk(JStr(SubSeq(s, i + 1, j - 1)), j + 1)

\* The one element of a singleton set.  A value is bound once by drawing it
\* from a singleton set: Only({F(v) : v \in {expr}}) is F(expr).
Only(S) == CHOOSE v \in S : TRUE

RECURSIVE ParseValue(_, _)
RECURSIVE ParseElems(_, _, _)
RECURSIVE AfterElem(_, _, _)
RECURSIVE ParseMembers(_, _, _, _)
RECURSIVE AfterName(_, _, _, _)
RECURSIVE AfterMember(_, _, _, _)

\* s[i] is the first chunk of a value
ParseValue(s, i) ==
    IF i > Len(s) THEN ParseFail
    ELSE IF s[i] = QUOTE THEN ParseString(s, i)
    ELSE IF s[i] \in {"true", "false", "null"} THEN ParseOk(JLit(s[i], s[i]), i + 1)
    ELSE IF s[i] \in NumberChunks THEN ParseOk(JLit("num", s[i]), i + 1)
    ELSE IF s[i] = "[" THEN
        LET j == SkipWs(s, i + 1)
        IN  IF j <= Len(s) /\ s[j] = "]" THEN ParseOk(JArr(<<>>), j + 1)
            ELSE ParseElems(s, j, <<>>)
    ELSE IF s[i] = "{" THEN
        LET j == SkipWs(s, i + 1)
        IN  IF j <= Len(s) /\ s[j] = "}" THEN ParseOk(JObj(<<>>, <<>>), j + 1)
            ELSE ParseMembers(s, j, <<>>, <<>>)
    ELSE ParseFail

\* the elements of an array, s[i] the first chunk of the next element
ParseElems(s, i, acc) == Only({AfterElem(s, r, acc) : r \in {ParseValue(s, i)}})

\* r is the parse of an element: a comma, the closing bracket, or an error
AfterElem(s, r, acc) ==
    IF ~r.ok THEN ParseFail
    ELSE LET k == SkipWs(s, r.nxt)
         IN  IF k > Len(s) THEN ParseFail
             ELSE IF s[k] = "," THEN ParseElems(s, SkipWs(s, k + 1), Append(acc, r.val))
             ELSE IF s[k] = "]" THEN ParseOk(JArr(Append(acc, r.val)), k + 1)
             ELSE ParseFail

\* the members of an object, s[i] the first chunk of the next member name
ParseMembers(s, i, keys, vals) ==
    IF i > Len(s) \/ s[i] # QUOTE THEN ParseFail
    ELSE Only({AfterName(s, kr, keys, vals) : kr \in {ParseString(s, i)}})

\* kr is the parse of a member name: a colon and the member's value
AfterName(s, kr, keys, vals) ==
    IF ~kr.ok THEN ParseFail
    ELSE LET c == SkipWs(s, kr.nxt)
         IN  IF c > Len(s) \/ s[c] # ":" THEN ParseFail
             ELSE Only({AfterMember(s, vr, Append(keys, kr.val.s), vals) :
                           vr \in {ParseValue(s, SkipWs(s, c + 1))}})

\* vr is the parse of a member value: a comma, the closing brace, or an error
AfterMember(s, vr, keys, vals) ==
    IF ~vr.ok THEN ParseFail
    ELSE LET k == SkipWs(s, vr.nxt)
         IN  IF k > Len(s) THEN ParseFail
             ELSE IF s[k] = ","
             THEN ParseMembers(s, SkipWs(s, k + 1), keys, Append(vals, vr.val))
             ELSE IF s[k] = "}" THEN ParseOk(JObj(keys, Append(vals, vr.val)), k + 1)
             ELSE ParseFail

ParseDocument(s) ==
    Only({IF r.ok /\ SkipWs(s, r.nxt) = Len(s) + 1 THEN r ELSE ParseFail :
             r \in {ParseValue(s, SkipWs(s, 1))}})

\* json.loads(text): one value, surrounded by whitespace only
json_loads(text) == Only({ParseDocument(s) : s \in {text}})

(***************************************************************************)
(* _extract_json_block and _repair_truncated_json.                         *)
(***************************************************************************)
\* a fence strip that leaves what follows the closing fence in the text
StripFencesKeepTail(content) ==
    LET first == Find(content, FENCE)
        last == RFind(content, FENCE)
    IN  IF first # 0 /\ last # 0 /\ last > first
        THEN SubSeq(content, first + 1, last - 1)
                 \o SubSeq(content, last + 1, Len(content))
        ELSE content

\* step 1: the text between the first and the last fence, if there are two
StripFences(content) ==
    LET first == Find(content, FENCE)
        last == RFind(content, FENCE)
    IN  IF first # 0 /\ last # 0 /\ last > first
        THEN SubSeq(content, first + 1, last - 1)
        ELSE content

\* step 2: a leading "json" label is dropped, with the whitespace around it
StripJsonLabel(content) ==
    LET stripped == LStrip(content)
    IN  IF stripped # <<>> /\ Head(stripped) \in JsonLabels
        THEN LStrip(Tail(stripped))
        ELSE content

\* a span that ends at the first } instead of the last
BraceSpanToFirstClose(content) ==
    LET start == Find(content, "{")
        end == Find(content, "}")
    IN  IF start # 0 /\ end # 0 /\ end > start
        THEN SubSeq(content, start, end)
        ELSE content

\* step 3: from the first { to the last }
BraceSpan(content) ==
    LET start == Find(content, "{")
        end == RFind(content, "}")
    IN  IF start # 0 /\ end # 0 /\ end > start
        THEN SubSeq(content, start, end)
        ELSE content

_extract_json_block(content) ==
    IF content = <<>> THEN content
    ELSE BraceSpan(StripJsonLabel(StripFences(content)))

\* the counting test without its bracket count
RepairAppliesCurlyOnly(cleaned) ==
    LET stripped == RStrip(cleaned)
    IN  /\ stripped # <<>>
        /\ stripped[Len(stripped)] = "}"
        /\ Count(stripped, "{") - Count(stripped, "}") = 1

\* the counting test of _repair_truncated_json on the right-trimmed text
RepairApplies(cleaned) ==
    LET stripped == RStrip(cleaned)
    IN  /\ stripped # <<>>
        /\ stripped[Len(stripped)] = "}"
        /\ Count(stripped, "{") - Count(stripped, "}") = 1
        /\ Count(stripped, "[") - Count(stripped, "]") = 1

\* what the repair appends: "\n  ]\n}"
RepairSuffix == <<NL, SP, SP, "]", NL, "}">>

RepairCandidate(cleaned) == RStrip(cleaned) \o RepairSuffix

\* a parse result: ok with the dict, or not ok (the function returned None)
_repair_truncated_json(cleaned) ==
    IF RepairApplies(cleaned) THEN json_loads(RepairCandidate(cleaned)) ELSE ParseFail

(***************************************************************************)
(* Python semantics used by the coercion in _call_llm.                     *)
(***************************************************************************)
Truthy(v) ==
    CASE v.t = "str" -> v.s # <<>>
      [] v.t = "num" -> v.s # <<"0">>
      [] v.t = "true" -> TRUE
      [] v.t \in {"false", "null"} -> FALSE
      [] v.t \in {"arr", "obj"} -> v.items # <<>>

\* a or b
Or(a, b) == IF Truthy(a) THEN a ELSE b

HasKey(o, k) == \E i \in 1..Len(o.keys) : o.keys[i] = k

\* dict.get(k, default): json.loads keeps the last of duplicate names
DictGet(o, k, default) ==
    IF HasKey(o, k)
    THEN o.items[CHOOSE i \in 1..Len(o.keys) :
                     o.keys[i] = k /\ \A j \in 1..Len(o.keys) : o.keys[j] = k => j <= i]
    ELSE default

\* the elements a for-loop over v visits; exc is the exception iter(v) raises
Iterate(v) ==
    CASE v.t = "arr" -> [exc |-> None, items |-> v.items]
      [] v.t = "obj" -> [exc |-> None, items |-> [i \in 1..Len(v.keys) |-> JStr(v.keys[i])]]
      [] v.t = "str" -> [exc |-> None, items |-> [i \in 1..Len(v.s) |-> JStr(<<v.s[i]>>)]]
      [] OTHER -> [exc |-> "TypeError", items |-> <<>>]

\* the first exception of a sequence of outcomes, None if there is none
FirstExc(rs) ==
    LET bad == {i \in 1..Len(rs) : rs[i].exc # None}
    IN  IF bad = {} THEN None
        ELSE rs[CHOOSE i \in bad : \A j \in bad : i <= j].exc

IsStrList(v) == v.t = "arr" /\ \A i \in 1..Len(v.items) : v.items[i].t = "str"
IsStrDict(v) == v.t = "obj" /\ \A i \in 1..Len(v.items) : v.items[i].t = "str"
StrsOf(items) == [i \in 1..Len(items) |-> items[i].s]

DEFAULT_USER == JStr(<<"USER">>)
DEFAULT_TITLE == JStr(<<"Rekomendatsiya">>)
EmptyStr == JStr(<<>>)
EmptyList == JArr(<<>>)
EmptyDict == JObj(<<>>, <<>>)

K(w) == <<w>>

NoProfile == [id |-> <<>>, display_name |-> <<>>, traits |-> EmptyDict, summary |-> <<>>]

\* ParticipantProfile(id=..., display_name=..., traits=..., summary=...) for
\* one element p of data["participants"]
CoerceParticipant(p) ==
    IF p.t # "obj" THEN [exc |-> "AttributeError", val |-> NoProfile]
    ELSE
    LET id == Or(Or(DictGet(p, K("id"), JNull), DictGet(p, K("display_name"), JNull)),
                 DEFAULT_USER)
        display_name == Or(Or(DictGet(p, K("display_name"), JNull), DictGet(p, K("id"), JNull)),
                           DEFAULT_USER)
        traits == Or(DictGet(p, K("traits"), EmptyDict), EmptyDict)
        summary == Or(DictGet(p, K("summary"), EmptyStr), EmptyStr)
    IN  IF id.t = "str" /\ display_name.t = "str" /\ IsStrDict(traits) /\ summary.t = "str"
        THEN [exc |-> None,
              val |-> [id |-> id.s, display_name |-> display_name.s,
                       traits |-> traits, summary |-> summary.s]]
        ELSE [exc |-> "ValidationError", val |-> NoProfile]

NoRelationship == [description |-> <<>>, red_flags |-> <<>>, green_flags |-> <<>>]

\* RelationshipSummary(...) from data.get("relationship", {}) or {}
CoerceRelationship(data) ==
    LET rel_raw == Or(DictGet(data, K("relationship"), EmptyDict), EmptyDict)
    IN  IF rel_raw.t # "obj" THEN [exc |-> "AttributeError", val |-> NoRelationship]
        ELSE
        LET description == Or(DictGet(rel_raw, K("description"), EmptyStr), EmptyStr)
            red_flags == Or(DictGet(rel_raw, K("red_flags"), EmptyList), EmptyList)
            green_flags == Or(DictGet(rel_raw, K("green_flags"), EmptyList), EmptyList)
        IN  IF description.t = "str" /\ IsStrList(red_flags) /\ IsStrList(green_flags)
            THEN [exc |-> None,
                  val |-> [description |-> description.s,
                           red_flags |-> StrsOf(red_flags.items),
                           green_flags |-> StrsOf(green_flags.items)]]
            ELSE [exc |-> "ValidationError", val |-> NoRelationship]

NoRecommendation == [title |-> <<>>, text |-> <<>>]

\* a recommendation whose missing title stays empty
CoerceRecommendationEmptyTitle(r) ==
    IF r.t # "obj" THEN [exc |-> "AttributeError", val |-> NoRecommendation]
    ELSE
    LET title == Or(DictGet(r, K("title"), EmptyStr), EmptyStr)
        text == Or(DictGet(r, K("text"), EmptyStr), EmptyStr)
    IN  IF title.t = "str" /\ text.t = "str"
        THEN [exc |-> None, val |-> [title |-> title.s, text |-> text.s]]
        ELSE [exc |-> "ValidationError", val |-> NoRecommendation]

\* Recommendation(title=..., text=...) for one element r
CoerceRecommendation(r) ==
    IF r.t # "obj" THEN [exc |-> "AttributeError", val |-> NoRecommendation]
    ELSE
    LET title == Or(DictGet(r, K("title"), DEFAULT_TITLE), DEFAULT_TITLE)
        text == Or(DictGet(r, K("text"), EmptyStr), EmptyStr)
    IN  IF title.t = "str" /\ text.t = "str"
        THEN [exc |-> None, val |-> [title |-> title.s, text |-> text.s]]
        ELSE [exc |-> "ValidationError", val |-> NoRecommendation]

(***************************************************************************)
(* _build_dummy_response: the placeholder result.                          *)
(***************************************************************************)
fallback_text == <<"K sozhaleniyu, proizoshla oshibka pri obrabotke perepiski.">>

dummy_participants ==
    << [id |-> <<"USER_1">>, display_name |-> <<"USER_1">>,
        traits |-> JObj(<<K("extroversion"), K("emotional_stability"), K("other")>>,
                        <<JStr(fallback_text), JStr(fallback_text), JStr(fallback_text)>>),
        summary |-> fallback_text] >>

dummy_relationship ==
    [description |-> fallback_text, red_flags |-> <<fallback_text>>,
     green_flags |-> <<fallback_text>>]

dummy_recommendations ==
    << [title |-> fallback_text, text |-> fallback_text],
       [title |-> fallback_text, text |-> fallback_text],
       [title |-> fallback_text, text |-> fallback_text] >>

(***************************************************************************)
(* _call_llm.  A generation is what client.chat.completions.create does:   *)
(*   kind = "raise" - the call raises (transport / service error)          *)
(*   kind = "none"  - message.content is None                              *)
(*   kind = "text"  - message.content is the chunk sequence text           *)
(* For a text, doc / dropped / wrap record how the model built it: the      *)
(* document, how many of its last chunks were lost, and what surrounds it. *)
(***************************************************************************)
GenRaise == [kind |-> "raise", text |-> <<>>, doc |-> <<>>, dropped |-> 0, wrap |-> "bare"]
GenNone == [kind |-> "none", text |-> <<>>, doc |-> <<>>, dropped |-> 0, wrap |-> "bare"]
GenText(text) == [kind |-> "text", text |-> text, doc |-> text, dropped |-> 0, wrap |-> "bare"]

LlmFail(exc) ==
    [exc |-> exc, participants |-> <<>>, relationship |-> NoRelationship,
     recommendations |-> <<>>]

\* lines 328-339: data, or the RuntimeError, after the strict parse of the
\* extracted text failed or not. loads counts the calls of json.loads
AfterStrictParse(cleaned, strict) ==
    IF strict.ok
    THEN [exc |-> None, data |-> strict.val, repaired |-> FALSE, loads |-> 1]
    ELSE Only({IF repaired.ok
               THEN [exc |-> None, data |-> repaired.val, repaired |-> TRUE, loads |-> 2]
               ELSE [exc |-> "RuntimeError", data |-> JNull, repaired |-> FALSE,
                     loads |-> IF RepairApplies(cleaned) THEN 2 ELSE 1] :
                  repaired \in {_repair_truncated_json(cleaned)}})

\* lines 326-339: the extraction, the strict parse, the repair on failure
ParseContent(content) ==
    Only({Only({AfterStrictParse(cleaned, strict) : strict \in {json_loads(cleaned)}}) :
             cleaned \in {_extract_json_block(content)}})

\* lines 358-366: no participants, the placeholder is returned, not raised
ZeroParticipantsSurfaced ==
    [exc |-> None, participants |-> <<>>, relationship |-> NoRelationship,
     recommendations |-> <<>>]

ZeroParticipantsResult ==
    [exc |-> None, participants |-> dummy_participants,
     relationship |-> dummy_relationship,
     recommendations |-> dummy_recommendations]

\* lines 347-384: the coercion of a dict
CoerceDict(data) ==
    LET pit == Iterate(DictGet(data, K("participants"), EmptyList))
        ps == [i \in 1..Len(pit.items) |-> CoerceParticipant(pit.items[i])]
        rel == CoerceRelationship(data)
        rit == Iterate(DictGet(data, K("recommendations"), EmptyList))
        rs == [i \in 1..Len(rit.items) |-> CoerceRecommendation(rit.items[i])]
    IN  IF pit.exc # None THEN LlmFail(pit.exc)
        ELSE IF FirstExc(ps) # None THEN LlmFail(FirstExc(ps))
        ELSE IF ps = <<>> THEN ZeroParticipantsResult
        ELSE IF rel.exc # None THEN LlmFail(rel.exc)
        ELSE IF rit.exc # None THEN LlmFail(rit.exc)
        ELSE IF FirstExc(rs) # None THEN LlmFail(FirstExc(rs))
        ELSE [exc |-> None,
              participants |-> [i \in 1..Len(ps) |-> ps[i].val],
              relationship |-> rel.val,
              recommendations |-> [i \in 1..Len(rs) |-> rs[i].val]]

\* lines 341-384: the is_fallback wrapper, then the coercion of the parsed data
CoerceData(data) ==
    IF data.t = "obj" /\ Truthy(DictGet(data, K("is_fallback"), JNull))
    THEN LlmFail("RuntimeError")
    ELSE IF data.t # "obj" THEN LlmFail("AttributeError")
    ELSE CoerceDict(data)

_call_llm(gen) ==
    IF gen.kind = "raise" THEN LlmFail("APIConnectionError")
    ELSE IF gen.kind = "none" \/ gen.text = <<>> \/ Strip(gen.text) = <<>>
    THEN LlmFail("RuntimeError")
    ELSE Only({IF parsed.exc # None THEN LlmFail(parsed.exc)
               ELSE Only({CoerceData(data) : data \in {parsed.data}}) :
                  parsed \in {ParseContent(gen.text)}})

(***************************************************************************)
(* analyze_chat_text, from the snippet on (lines 457-485).                 *)
(***************************************************************************)
CaughtRuntimeErrorOnly(exc) == exc = "RuntimeError"

\* except Exception: every exception _call_llm raises is caught
Caught(exc) == TRUE

NoResponse ==
    [raised |-> None, returned |-> FALSE, participants |-> <<>>,
     relationship |-> NoRelationship, recommendations |-> <<>>,
     is_fallback |-> FALSE, error_message |-> None]

PlaceholderKeepsInitialLists(is_fallback, error_message) ==
    [raised |-> None, returned |-> TRUE, participants |-> dummy_participants,
     relationship |-> dummy_relationship, recommendations |-> <<>>,
     is_fallback |-> is_fallback, error_message |-> error_message]

Placeholder(is_fallback, error_message) ==
    [raised |-> None, returned |-> TRUE, participants |-> dummy_participants,
     relationship |-> dummy_relationship, recommendations |-> dummy_recommendations,
     is_fallback |-> is_fallback, error_message |-> error_message]

\* lines 467-485: the response built from what _call_llm returned or raised
AfterCall(r) ==
    IF r.exc = None
    THEN [raised |-> None, returned |-> TRUE, participants |-> r.participants,
          relationship |-> r.relationship,
          recommendations |-> r.recommendations,
          is_fallback |-> FALSE, error_message |-> None]
    ELSE IF Caught(r.exc) THEN Placeholder(TRUE, r.exc)
    ELSE [NoResponse EXCEPT !.raised = r.exc]

analyze_chat_text(snip, gen) ==
    IF Strip(snip) # <<>>
    THEN Only({AfterCall(r) : r \in {_call_llm(gen)}})
    ELSE Placeholder(FALSE, None)

(***************************************************************************)
(* The generation responses the model draws from: JSON documents in the    *)
(* shape of SYSTEM_PROMPT and variations of them, whole or truncated,      *)
(* bare or wrapped in a fence or prose.                                    *)
(***************************************************************************)
Q(w) == <<QUOTE, w, QUOTE>>
Member(k, v) == <<Q(k) \o <<":">> \o v>>

RECURSIVE JoinComma(_)
JoinComma(parts) ==
    IF parts = <<>> THEN <<>>
    ELSE IF Len(parts) = 1 THEN parts[1]
    ELSE parts[1] \o <<",">> \o JoinComma(Tail(parts))

ObjOf(members) == <<"{">> \o JoinComma(members) \o <<"}">>
ArrOf(elems) == <<"[">> \o JoinComma(elems) \o <<"]">>

PFull ==
    ObjOf(Member("id", Q("USER_1")) \o Member("display_name", Q("USER_1"))
          \o Member("traits", ObjOf(<<>>)) \o Member("summary", Q("x")))
PNoId == ObjOf(Member("display_name", Q("USER_2")))
PNumId == ObjOf(Member("id", <<"5">>))
RFull == ObjOf(Member("title", Q("t")) \o Member("text", Q("z")))
\* a recommendation without title whose text holds a brace
RBrace == ObjOf(Member("text", <<QUOTE, "a", "{", "b", QUOTE>>))
RelFull ==
    ObjOf(Member("description", Q("y")) \o Member("red_flags", ArrOf(<<>>))
          \o Member("green_flags", ArrOf(<<>>)))

FallbackOpts == {<<>>, Member("is_fallback", <<"true">>)}
ParticipantsOpts ==
    {<<>>} \cup
    {Member("participants", v) :
        v \in {ArrOf(<<>>), ArrOf(<<PFull>>), ArrOf(<<PNoId, PFull>>), ArrOf(<<Q("x")>>),
               ArrOf(<<PNumId>>), <<"null">>}}
RelationshipOpts == {<<>>, Member("relationship", RelFull)}
RecommendationsOpts ==
    {<<>>} \cup
    {Member("recommendations", v) :
        v \in {ArrOf(<<>>), ArrOf(<<RFull>>), ArrOf(<<RFull, RBrace>>)}}

\* the well-formed documents
Documents ==
    {ObjOf(f \o p \o rel \o rec) :
        f \in FallbackOpts, p \in ParticipantsOpts,
        rel \in RelationshipOpts, rec \in RecommendationsOpts}
    \cup {ArrOf(<<PFull>>), Q("x"), <<"5">>}

\* a document that lost its last n chunks
Truncated(doc, n) == SubSeq(doc, 1, Len(doc) - n)

Wraps == {"bare", "fenced", "prose"}

Wrapped(w, t) ==
    CASE w = "bare" -> t
      [] w = "fenced" -> <<FENCE, "json", NL>> \o t \o <<NL, FENCE>>
      [] w = "prose" -> <<"Here", SP, "is", SP>> \o t \o <<NL>>

Generations ==
    {GenRaise, GenNone}
    \cup {GenText(c) : c \in {<<>>, <<SP, NL>>, <<"Sorry", SP, "no", SP, "analysis">>}}
    \cup {[kind |-> "text", text |-> Wrapped(w, Truncated(doc, n)), doc |-> doc,
           dropped |-> n, wrap |-> w] :
              doc \in Documents, n \in 0..MaxDrop, w \in Wraps}

\* the snippets: blank ones and one conversation line
Snippets == {<<>>, <<SP, NL>>, <<"USER_1", ":", SP, "hi">>}

(***************************************************************************)
(* Messages (TelegramMessage) and dates.                                   *)
(*                                                                         *)
(* A datetime is a record of a calendar day (a day number) and a time of   *)
(* day (minutes); Optional[datetime] None is NoDate.  A date (from_date,   *)
(* to_date) is a day number; Optional[date] None is NoDay.  Day numbers    *)
(* start at 1, so every date and datetime object is truthy, as in Python.  *)
(***************************************************************************)
NoDate == [day |-> 0, time |-> 0]
NoDay == 0

DateTime(d, t) == [day |-> d, time |-> t]

\* datetime.date(): the calendar day, the time of day is dropped
DateOf(dt) == dt.day

TelegramMessage(from_name, text, date) ==
    [from_name |-> from_name, text |-> text, date |-> date]

\* all sequences over S of length at most n
SeqsUpTo(S, n) == UNION {[1..k -> S] : k \in 0..n}

(***************************************************************************)
(* filter_messages_by_date.                                                *)
(***************************************************************************)
\* a range test that leaves out the day of the upper end
InRangeExclusiveEnd(msg, from_date, to_date) ==
    /\ msg.date # NoDate
    /\ ~(from_date # NoDay /\ DateOf(msg.date) < from_date)
    /\ ~(to_date # NoDay /\ DateOf(msg.date) >= to_date)

\* the loop body: TRUE iff the message is appended to the filtered list
InRange(msg, from_date, to_date) ==
    /\ msg.date # NoDate
    /\ ~(from_date # NoDay /\ DateOf(msg.date) < from_date)
    /\ ~(to_date # NoDay /\ DateOf(msg.date) > to_date)

\* a range filter without the "nothing left, use the full set" branch
filter_messages_by_date_strict(msgs, from_date, to_date) ==
    IF from_date = NoDay /\ to_date = NoDay
    THEN msgs
    ELSE LET Test(msg) == InRange(msg, from_date, to_date)
         IN  SelectSeq(msgs, Test)

filter_messages_by_date(msgs, from_date, to_date) ==
    IF from_date = NoDay /\ to_date = NoDay
    THEN msgs
    ELSE LET Test(msg) == InRange(msg, from_date, to_date)
             kept == SelectSeq(msgs, Test)
         IN  IF kept = <<>> THEN msgs ELSE kept

(***************************************************************************)
(* _is_noise_text and filter_noise_messages.                               *)
(*                                                                         *)
(* The phrases the noise tests look for are single chunks; the Russian     *)
(* ones are transliterated, and the left-to-right mark that starts two of  *)
(* the placeholders is written <LRM>.                                      *)
(***************************************************************************)
\* str.lower() on one chunk: the chunks that have upper-case letters
LowerChunk(c) ==
    CASE c = "<Media omitted>" -> "<media omitted>"
      [] c = "[Media Omitted]" -> "[media omitted]"
      [] c = "Bez mediafajlov" -> "bez mediafajlov"
      [] c = "Propushchennyj audiozvonok" -> "propushchennyj audiozvonok"
      [] c = "Vy sozdali gruppu" -> "vy sozdali gruppu"
      [] c = "Soobshcheniya i zvonki" -> "soobshcheniya i zvonki"
      [] c = "OK" -> "ok"
      [] c = "<HTML" -> "<html"
      [] OTHER -> c

lower(s) == [i \in 1..Len(s) |-> LowerChunk(s[i])]

MEDIA_PLACEHOLDERS ==
    { <<"not included, change data exporting settings to download.">>,
      <<"[media omitted]">>,
      <<"<media omitted>">>,
      <<"<LRM>image omitted">>,
      <<"<LRM>image omitted.">>,
      <<"izobrazhenie ne sohraneno">>,
      <<"mediafajl otsutstvuet">>,
      <<"Bez mediafajlov">>,
      <<"Propushchennyj audiozvonok">> }

\* SYSTEM_PATTERNS[1:]: the patterns that are one fixed phrase
SYSTEM_PHRASES ==
    { "vy sozdali gruppu",
      "vy izmenili foto gruppy",
      "vy izmenili temu besedy",
      "vy zakrepili soobshchenie",
      "vy udalili soobshchenie",
      "Bez mediafajlov",
      "Propushchennyj audiozvonok" }

\* SYSTEM_PATTERNS[0]: "soobshcheniya i zvonki", a space, any run without a
\* newline, a space, "zashchishcheny skvoznym shifrovaniem"
EncryptionNotice(low) ==
    \E i, j \in 1..Len(low) :
        /\ low[i] = "soobshcheniya i zvonki"
        /\ low[j] = "zashchishcheny skvoznym shifrovaniem"
        /\ i + 2 < j
        /\ low[i + 1] = SP
        /\ low[j - 1] = SP
        /\ \A k \in (i + 1)..(j - 1) : low[k] # NL

\* any(rx.search(low)) with re.IGNORECASE
SystemSearch(low) ==
    \/ EncryptionNotice(lower(low))
    \/ \E i \in 1..Len(low) :
           LowerChunk(low[i]) \in {LowerChunk(p) : p \in SYSTEM_PHRASES}

\* a noise test that compares the text without trimming it
_is_noise_text_untrimmed(text) ==
    IF text = <<>>
    THEN TRUE
    ELSE IF Strip(text) = <<>>
         THEN TRUE
         ELSE LET low == lower(text)
              IN  low \in MEDIA_PLACEHOLDERS \/ SystemSearch(low)

_is_noise_text(text) ==
    IF text = <<>>
    THEN TRUE
    ELSE LET stripped == Strip(text)
         IN  IF stripped = <<>>
             THEN TRUE
             ELSE LET low == lower(stripped)
                  IN  low \in MEDIA_PLACEHOLDERS \/ SystemSearch(low)

\* a filter that removes noise from the list while iterating over it, so
\* that the message after a removed one is never looked at
RECURSIVE RemoveWhileIterating(_)
RemoveWhileIterating(msgs) ==
    IF msgs = <<>>
    THEN <<>>
    ELSE IF _is_noise_text(Head(msgs).text)
         THEN IF Len(msgs) = 1
              THEN <<>>
              ELSE <<msgs[2]>> \o RemoveWhileIterating(SubSeq(msgs, 3, Len(msgs)))
         ELSE <<Head(msgs)>> \o RemoveWhileIterating(Tail(msgs))

\* msg.text or "": the texts of the model are strings, never None
filter_noise_messages(msgs) ==
    LET Keep(msg) == ~_is_noise_text(msg.text)
    IN  SelectSeq(msgs, Keep)

(***************************************************************************)
(* _build_conversation_snippet.                                            *)
(***************************************************************************)
\* len() of one chunk
CharLen(c) ==
    CASE c \in {"A", "B", "C", ":", SP, NL, ">"} -> 1
      [] c \in {"hi", "yo", "Hi"} -> 2
      [] c = "Bob" -> 3
      [] c \in {"hello", "Alice", "<html", "<HTML"} -> 5
      [] c \in {"thanks", "USER_1"} -> 6
      [] c = "<Media omitted>" -> 15
      [] c = "09.01.2023, 19:58 -" -> 19
      [] c = "[01/02/2023, 10:00:00]" -> 22
      [] c = "<div class=\"message joined\"><div class=\"body\"><div class=\"text\">yo</div></div></div>" -> 84
      [] c = "<div class=\"message\"><div class=\"body\"><div class=\"from_name\">Ann</div><div class=\"text\">hi</div></div></div>" -> 109
      [] c = "<495 characters>" -> 495
      [] c = "<496 characters>" -> 496

\* len() of a string
RECURSIVE StrLen(_)
StrLen(s) == IF s = <<>> THEN 0 ELSE CharLen(Head(s)) + StrLen(Tail(s))

\* "\n".join(lines)
RECURSIVE JoinLines(_)
JoinLines(lines) ==
    IF lines = <<>> THEN <<>>
    ELSE IF Len(lines) = 1 THEN lines[1]
    ELSE lines[1] \o <<NL>> \o JoinLines(Tail(lines))

\* Optional[Set[str]]: None, or a set of sender ids
NoIds == [given |-> FALSE, ids |-> {}]
Ids(S) == [given |-> TRUE, ids |-> S]

\* f"{msg.from_name}: {msg.text}"
SnippetLine(msg) == msg.from_name \o <<":", SP>> \o msg.text

\* one pass of the loop over the messages, from the state (lines, total_len)
RECURSIVE CollectLines(_, _, _, _, _)
CollectLines(msgs, max_chars, allowed_ids, lines, total_len) ==
    IF msgs = <<>>
    THEN lines
    ELSE LET msg == Head(msgs)
             line == SnippetLine(msg)
         IN  IF Strip(msg.text) = <<>>
             THEN CollectLines(Tail(msgs), max_chars, allowed_ids, lines, total_len)
             ELSE IF allowed_ids.given /\ msg.from_name \notin allowed_ids.ids
             THEN CollectLines(Tail(msgs), max_chars, allowed_ids, lines, total_len)
             ELSE IF total_len + StrLen(line) > max_chars
             THEN lines
             ELSE CollectLines(Tail(msgs), max_chars, allowed_ids,
                               Append(lines, line), total_len + StrLen(line))

_build_conversation_snippet(msgs, max_chars, allowed_ids) ==
    LET first == CollectLines(msgs, max_chars, allowed_ids, <<>>, 0)
        lines == IF first = <<>> /\ msgs # <<>>
                 THEN CollectLines(msgs, max_chars, NoIds, <<>>, 0)
                 ELSE first
    IN  JoinLines(lines)

(***************************************************************************)
(* The WhatsApp line-dialect parser: _match_whatsapp_header and the loop   *)
(* of parse_whatsapp_txt.                                                  *)
(*                                                                         *)
(* The date-and-time stamp that opens a header line is one chunk: the      *)
(* bracketed form "[date, time]" of the first pattern, or the form         *)
(* "date, time -" (dash included) of the second.                           *)
(***************************************************************************)
STAMP_BRACKET == "[01/02/2023, 10:00:00]"
STAMP_DASH == "09.01.2023, 19:58 -"
\* matches the patterns, but is no calendar date: dateparser.parse raises
STAMP_NO_DATE == "[31/31/2023, 10:00]"

HeaderStamps == {STAMP_BRACKET, STAMP_DASH, STAMP_NO_DATE}

\* dateparser.parse(date + " " + time, dayfirst=True) in try/except: the day
\* of the year and the minute of the day, or None
StampDate(stamp) ==
    CASE stamp = STAMP_BRACKET -> DateTime(32, 600)
      [] stamp = STAMP_DASH -> DateTime(9, 1198)
      [] OTHER -> NoDate

NoHeader == [matched |-> FALSE, dt |-> NoDate, name |-> <<>>, msg |-> <<>>]

\* stamp, \s*, name = [^:]+ (at least one character, up to the first colon),
\* a colon, \s*, msg = the rest of the line; name and msg are stripped
_match_whatsapp_header(line) ==
    IF line = <<>> \/ Head(line) \notin HeaderStamps
    THEN NoHeader
    ELSE LET colon == Find(Tail(line), ":") + 1
         IN  IF colon < 3
             THEN NoHeader
             ELSE [matched |-> TRUE,
                   dt |-> StampDate(Head(line)),
                   name |-> Strip(SubSeq(line, 2, colon - 1)),
                   msg |-> Strip(SubSeq(line, colon + 1, Len(line)))]

SYSTEM_PREFIXES ==
    { "Messages and calls are end-to-end encrypted",
      "Soobshcheniya i zvonki zashchishcheny skvoznym shifrovaniem" }

\* a test that takes only the bare prefix for a system line
IsSystemLineExact(line) ==
    line \in {<<prefix>> : prefix \in SYSTEM_PREFIXES}

\* any(line.startswith(prefix) for prefix in SYSTEM_PREFIXES)
IsSystemLine(line) ==
    line # <<>> /\ Head(line) \in SYSTEM_PREFIXES

MEDIA_MARKERS ==
    { <<"<Media omitted>">>,
      <<"Media omitted">>,
      <<"<Media izyato>">>,
      <<"izobrazhenie skryto">>,
      <<"image omitted">>,
      <<"video omitted">> }

\* str.splitlines(): the runs between newlines; a final newline opens no
\* further line
splitlines(text) ==
    LET starts == {i \in 1..Len(text) : i = 1 \/ text[i - 1] = NL}
        EndOf(s) == MinOf({i \in s..(Len(text) + 1) : i > Len(text) \/ text[i] = NL}) - 1
        Nth(k) == CHOOSE s \in starts : Cardinality({t \in starts : t < s}) = k - 1
    IN  [k \in 1..Cardinality(starts) |-> SubSeq(text, Nth(k), EndOf(Nth(k)))]

\* current is a sequence holding the message in progress, empty when
\* current is None.  messages.append(current) if current is not None:
Flush(msgs, cur) == msgs \o cur

\* a system line that forgets the message in progress
DiscardOnSystemLine(msgs, cur) == msgs

\* the system-line branch
CloseOnSystemLine(msgs, cur) == Flush(msgs, cur)

\* the header branch: the new message in progress
OpenMessage(header) ==
    LET msg == IF header.msg \in MEDIA_MARKERS THEN <<>> ELSE header.msg
    IN  <<TelegramMessage(header.name, msg, header.dt)>>

\* a continuation that also appends the media markers
ContinueMessageWithMarkers(cur, line) ==
    IF cur = <<>>
    THEN cur
    ELSE <<[cur[1] EXCEPT !.text = @ \o <<NL>> \o Strip(line)]>>

\* the non-header branch
ContinueMessage(cur, line) ==
    IF cur = <<>>
    THEN cur
    ELSE IF line \in MEDIA_MARKERS
         THEN cur
         ELSE <<[cur[1] EXCEPT !.text = @ \o <<NL>> \o Strip(line)]>>

(***************************************************************************)
(* Inputs of the filters, the snippet builder and the parser.              *)
(***************************************************************************)
\* messages for the range filter: dated on three days (two times on the
\* second day) and undated
RangeMessages ==
    { TelegramMessage(<<"A">>, <<"hi">>, NoDate),
      TelegramMessage(<<"B">>, <<"yo">>, NoDate),
      TelegramMessage(<<"A">>, <<"hi">>, DateTime(1, 600)),
      TelegramMessage(<<"A">>, <<"hi">>, DateTime(2, 0)),
      TelegramMessage(<<"B">>, <<"yo">>, DateTime(2, 1439)),
      TelegramMessage(<<"A">>, <<"hi">>, DateTime(3, 600)) }

\* texts for the noise filter
NoiseTexts ==
    { <<>>,
      <<SP, NL>>,
      <<"OK">>,
      <<"<thumbs up emoji>">>,
      <<SP, "<Media omitted>", SP>>,
      <<"see", SP, "<media omitted>">>,
      <<"Vy sozdali gruppu", SP, "X">>,
      <<"Bez mediafajlov">>,
      <<"Soobshcheniya i zvonki", SP, "v chate", SP,
        "zashchishcheny skvoznym shifrovaniem">>,
      <<"Soobshcheniya i zvonki", SP, "zashchishcheny skvoznym shifrovaniem">> }

NoiseMessages == {TelegramMessage(<<"A">>, t, NoDate) : t \in NoiseTexts}

\* messages for the snippet builder: lines of 5 and 11 characters and a
\* blank text
SnippetMessages ==
    { TelegramMessage(n, t, NoDate) :
          n \in {<<"A">>, <<"B">>},
          t \in {<<"hi">>, <<SP>>, <<"hello", NL, "yo">>} }

AllowedIds == {NoIds, Ids({<<"A">>}), Ids({<<"C">>})}

\* lines of a WhatsApp export
LineAliceHi == <<STAMP_BRACKET, SP, "Alice", ":", SP, "Hi">>
LineBobMedia == <<STAMP_DASH, SP, "Bob", ":", SP, "<Media omitted>">>
LineCarolColon == <<STAMP_NO_DATE, SP, "Carol", ":", "re", ":", SP, "x">>
LineBlankName == <<STAMP_BRACKET, SP, ":", SP, "x">>
LineNoColon == <<STAMP_BRACKET, SP, "Alice", SP, "left">>
LineThanks == <<"thanks">>
LinePadded == <<SP, SP, "thanks", SP>>
LineMarker == <<"<Media omitted>">>
LinePaddedMarker == <<SP, "<Media omitted>">>
LineSystem == <<"Messages and calls are end-to-end encrypted", ".", SP, "Tap">>
LineBlank == <<SP>>

WhatsappLines ==
    { LineAliceHi, LineBobMedia, LineCarolColon, LineBlankName, LineNoColon,
      LineThanks, LinePadded, LineMarker, LinePaddedMarker, LineSystem,
      LineBlank }

(***************************************************************************)
(* RateLimiter: the record of one client IP.  Every method takes the lock  *)
(* for its whole read-modify-write; the operators below give the record    *)
(* after the method and the value it returns.                              *)
(***************************************************************************)
\* _make_default_record: the analysis fields
DefaultRecord(default_limit) ==
    [analyze_used |-> 0, analyze_limit |-> default_limit,
     feedback_bonus_used |-> FALSE]

\* the test of check_and_increment_analysis: the limit is not reached
UnderLimit(used, limit) == ~(used >= limit)

check_and_increment_analysis(r) ==
    IF ~UnderLimit(r.analyze_used, r.analyze_limit)
    THEN [rec |-> r, ret |-> FALSE]
    ELSE [rec |-> [r EXCEPT !.analyze_used = @ + 1], ret |-> TRUE]

increment_analysis_used(r) == [r EXCEPT !.analyze_used = @ + 1]

\* a rollback that does not look at the counter
decrement_analysis_used_unguarded(r) ==
    [r EXCEPT !.analyze_used = @ - 1]

decrement_analysis_used(r) ==
    IF r.analyze_used > 0 THEN [r EXCEPT !.analyze_used = @ - 1] ELSE r

\* a bonus that is granted again on every call
grant_feedback_bonus_every_time(r, bonus) ==
    LET balance == r.analyze_limit - r.analyze_used
    IN  IF bonus <= 0
        THEN [rec |-> r, ret |-> 0]
        ELSE IF balance < bonus
        THEN [rec |-> [r EXCEPT !.analyze_limit = @ + (bonus - balance)],
              ret |-> bonus - balance]
        ELSE [rec |-> r, ret |-> 0]

grant_feedback_bonus(r, bonus) ==
    LET balance == r.analyze_limit - r.analyze_used
    IN  IF r.feedback_bonus_used \/ bonus <= 0
        THEN [rec |-> r, ret |-> 0]
        ELSE IF balance < bonus
        THEN [rec |-> [r EXCEPT !.analyze_limit = @ + (bonus - balance),
                                !.feedback_bonus_used = TRUE],
              ret |-> bonus - balance]
        ELSE [rec |-> [r EXCEPT !.feedback_bonus_used = TRUE], ret |-> 0]

(***************************************************************************)
(* AnalysisStorage: one file per analysis id.  Ids are handed out in       *)
(* order, 1, 2, ...; 0 stands for a missing id.                            *)
(***************************************************************************)
NoId == 0
NoFile == [saved |-> FALSE, paid |-> FALSE, analysis |-> NoResponse]

\* get_analysis: the file's data, NoFile (None) when there is no file
get_analysis(store, analysis_id) ==
    IF analysis_id \in DOMAIN store THEN store[analysis_id] ELSE NoFile

\* save_analysis: a new unpaid file under a fresh id
NextAnalysisId(store) == Cardinality({i \in DOMAIN store : store[i].saved}) + 1

save_analysis(store, analysis) ==
    [store EXCEPT ![NextAnalysisId(store)] =
        [saved |-> TRUE, paid |-> FALSE, analysis |-> analysis]]

\* mark_as_paid: [store, ret]
mark_as_paid(store, analysis_id) ==
    IF ~get_analysis(store, analysis_id).saved
    THEN [store |-> store, ret |-> FALSE]
    ELSE [store |-> [store EXCEPT ![analysis_id].paid = TRUE], ret |-> TRUE]

\* save_analysis under the id _generate_analysis_id returned
save_analysis_as(store, analysis_id, analysis) ==
    [store EXCEPT ![analysis_id] =
        [saved |-> TRUE, paid |-> FALSE, analysis |-> analysis]]

\* a cleanup call: the ids whose created_at lies before the cutoff, and
\* the number of files it deleted
CleanupCall(old, deleted) == [called |-> TRUE, old |-> old, deleted |-> deleted]
NoCleanup == [called |-> FALSE, old |-> {}, deleted |-> 0]

\* a cleanup that unlinks every old file
cleanup_old_analyses_paid_too(store, old) ==
    [i \in DOMAIN store |->
        IF store[i].saved /\ i \in old THEN NoFile ELSE store[i]]

\* cleanup_old_analyses: the files left
cleanup_old_analyses(store, old) ==
    [i \in DOMAIN store |->
        IF store[i].saved /\ ~store[i].paid /\ i \in old
        THEN NoFile
        ELSE store[i]]

(***************************************************************************)
(* payment_webhook: the request body and what the handler reads from it.   *)
(***************************************************************************)
\* a body is either in the provider's shape (an event with an object that
\* holds id, status and metadata.analysis_id) or flat; a missing field is
\* None (NoId for the analysis id)
WebhookBody(shape, payment_id, status, analysis_id) ==
    [shape |-> shape, payment_id |-> payment_id, status |-> status,
     analysis_id |-> analysis_id]

\* payment_provider is "yookassa": a body with an event is read through
\* its object, any other body through its top-level keys, where a body in
\* the provider's shape has none of the three
WebhookFields(body) ==
    IF body.shape = "event" \/ body.shape = "flat"
    THEN [payment_id |-> body.payment_id, status |-> body.status,
          analysis_id |-> body.analysis_id]
    ELSE [payment_id |-> None, status |-> None, analysis_id |-> NoId]

\* all([payment_id, status, analysis_id])
AllPresent(f) == f.payment_id # None /\ f.status # None /\ f.analysis_id # NoId

\* a webhook that opens access whatever the status
AnyStatus(status) == TRUE

\* status in ["succeeded", "success"]
IsSuccessStatus(status) == status \in {"succeeded", "success"}

\* threading.Lock: 0 when free, else the thread that holds it
LockIgnored(l) == TRUE

LockFree(l) == l = 0

\* a thread outside check_and_increment_analysis
IdleThread == [at |-> "idle", used |-> 0, limit |-> 0, calls |-> 0,
               trues |-> 0, falses |-> 0]

(***************************************************************************)
(* The route handlers analyze_chat, send_feedback, create_payment,         *)
(* payment_webhook and get_full_analysis.  A handler result is a record:   *)
(* the HTTP status, and what the claims need of the request and the reply. *)
(***************************************************************************)
NoRequest ==
    [op |-> "none", status |-> 0, analysis_id |-> NoId, used_before |-> 0,
     limit_before |-> 0, granted |-> 0, preview |-> FALSE, full |-> NoResponse]

Reply(op, status, r) ==
    [NoRequest EXCEPT !.op = op, !.status = status,
                      !.used_before = r.analyze_used,
                      !.limit_before = r.analyze_limit]

\* the generations an analysis request meets: the call raises, a valid
\* document, a document without participants
RequestGenerations ==
    { GenRaise,
      GenText(ObjOf(Member("participants", ArrOf(<<PFull>>)))),
      GenText(ObjOf(Member("participants", ArrOf(<<>>)))) }

\* the snippet of a request with a non-blank chat text
RequestSnippet == <<"USER_1", ":", SP, "hi">>

\* analyze_chat after the limit step: r0 is the record before the request,
\* r1 the record after the increment, resp what analyze_chat_text gave
AfterAnalysis(r0, r1, store, payment_enabled, resp) ==
    IF resp.raised # None
    THEN [rec |-> r1, storage |-> store, response |-> resp,
          request |-> Reply("analyze_chat", 500, r0)]
    ELSE LET r2 == IF resp.is_fallback THEN decrement_analysis_used(r1) ELSE r1
             remaining_before == r0.analyze_limit - r0.analyze_used
         IN  IF payment_enabled /\ ~(remaining_before > 0)
             THEN [rec |-> r2, storage |-> save_analysis(store, resp),
                   response |-> resp,
                   request |-> [Reply("analyze_chat", 200, r0) EXCEPT
                                   !.analysis_id = NextAnalysisId(store),
                                   !.preview = TRUE]]
             ELSE [rec |-> r2, storage |-> store, response |-> resp,
                   request |-> Reply("analyze_chat", 200, r0)]

analyze_chat(r, store, payment_enabled, chat_blank, gen) ==
    IF chat_blank
    THEN [rec |-> r, storage |-> store, response |-> NoResponse,
          request |-> Reply("analyze_chat", 400, r)]
    ELSE LET entry == IF ~payment_enabled
                      THEN check_and_increment_analysis(r)
                      ELSE [rec |-> increment_analysis_used(r), ret |-> TRUE]
         IN  IF ~entry.ret
             THEN [rec |-> entry.rec, storage |-> store, response |-> NoResponse,
                   request |-> Reply("analyze_chat", 429, r)]
             ELSE Only({AfterAnalysis(r, entry.rec, store, payment_enabled, resp) :
                           resp \in {analyze_chat_text(RequestSnippet, gen)}})

send_feedback(r, bonus) ==
    LET g == grant_feedback_bonus(r, bonus)
    IN  [rec |-> g.rec,
         request |-> [Reply("send_feedback", 200, r) EXCEPT !.granted = g.ret]]

create_payment(store, analysis_id) ==
    LET data == get_analysis(store, analysis_id)
    IN  IF ~data.saved THEN 404 ELSE IF data.paid THEN 400 ELSE 200

payment_webhook(store, body) ==
    LET f == WebhookFields(body)
    IN  IF ~AllPresent(f)
        THEN [storage |-> store, status |-> 400]
        ELSE IF IsSuccessStatus(f.status)
        THEN LET m == mark_as_paid(store, f.analysis_id)
             IN  IF ~m.ret
                 THEN [storage |-> store, status |-> 404]
                 ELSE [storage |-> m.store, status |-> 200]
        ELSE [storage |-> store, status |-> 200]

get_full_analysis(store, analysis_id) ==
    LET data == get_analysis(store, analysis_id)
    IN  IF ~data.saved
        THEN [status |-> 404, full |-> NoResponse]
        ELSE IF ~data.paid
        THEN [status |-> 402, full |-> NoResponse]
        ELSE [status |-> 200, full |-> data.analysis]

WebhookBodies ==
    { WebhookBody(shape, payment_id, status, analysis_id) :
          shape \in {"event", "flat", "no_event"},
          payment_id \in {None, "p1"},
          status \in {None, "succeeded", "success", "pending"},
          analysis_id \in 0..MaxAnalyses }

(***************************************************************************)
(* ChatStats.                                                              *)
(***************************************************************************)
\* ChatStats(total_messages, participants, first_message_at,
\* last_message_at); the averages are kept in tenths
ChatStats(total, participants, first_dt, last_dt) ==
    [total_messages |-> total, participants |-> participants,
     first_message_at |-> first_dt, last_message_at |-> last_dt]

NoStats == ChatStats(0, <<>>, NoDate, NoDate)

(***************************************************************************)
(* State.  Each specification below drives one operation; the variables    *)
(* of the other operations stay at their idle values.                      *)
(***************************************************************************)
VARIABLES
    pc,          \* where the modelled call stands
    snippet,     \* the snippet: result of the builder, input of the analysis
    generation,  \* analyze_chat_text: what the generation call did
    response,    \* analyze_chat_text: the AnalyzeResponse (or the exception)
    messages,    \* the message list: result of the parser, input of the rest
    from_date,   \* filter_messages_by_date: lower end of the range
    to_date,     \* filter_messages_by_date: upper end of the range
    by_date,     \* filter_messages_by_date: the list returned
    cleaned,     \* filter_noise_messages: the list returned
    recleaned,   \* filter_noise_messages applied to its own result
    max_chars,   \* _build_conversation_snippet: the character budget
    allowed_ids, \* _build_conversation_snippet: the sender allow-list
    chat_text,   \* parse_whatsapp_txt: the export text
    pos,         \* parse_whatsapp_txt: lines consumed by the loop
    current,     \* parse_whatsapp_txt: the message in progress
    rec,             \* RateLimiter: the record of the client IP
    feedback_bonus,  \* RateLimiter: the configured feedback bonus
    payment_enabled, \* settings.payment_enabled
    request,         \* the last request handled and its reply
    grant_calls,     \* grant_feedback_bonus calls so far (0, 1, 2 or more)
    storage,         \* AnalysisStorage: the file of each analysis id
    webhook_ok,      \* ids carried by a webhook call with a success status
    lock,            \* RateLimiter._lock
    threads,         \* the threads inside check_and_increment_analysis
    start_used,      \* analyze_used before the threads started
    content,         \* _extract_json_block: the text it is given
    block,           \* _extract_json_block: the text it returns
    html_str,        \* parse_telegram_html: the export, its message blocks
    stats,           \* the ChatStats computed from the messages or the text
    ip_stats,        \* RateLimiter._ip_stats: the record of each IP seen
    ip_stats_file,   \* ip_stats.json: the snapshot written last
    default_limit,   \* RateLimiter._default_limit
    workers,         \* the event loop and the pool threads of the server
    generated,       \* AnalysisStorage: the ids _generate_analysis_id gave
    cleaned_up       \* cleanup_old_analyses: the last call

vars == <<pc, snippet, generation, response, messages, from_date, to_date,
          by_date, cleaned, recleaned, max_chars, allowed_ids, chat_text,
          pos, current, rec, feedback_bonus, payment_enabled, request,
          grant_calls, storage, webhook_ok, lock, threads, start_used,
          content, block, html_str, stats, ip_stats, ip_stats_file,
          default_limit, workers, generated, cleaned_up>>

analyzeVars == <<generation, response>>
rangeVars == <<from_date, to_date, by_date>>
noiseVars == <<cleaned, recleaned>>
budgetVars == <<max_chars, allowed_ids>>
whatsappVars == <<chat_text, pos, current>>
limiterVars == <<rec, feedback_bonus, payment_enabled, request, grant_calls>>
paymentVars == <<storage, webhook_ok>>
threadVars == <<lock, threads, start_used>>
serviceVars == <<limiterVars, paymentVars, threadVars>>
extractVars == <<content, block>>
parserVars == <<html_str, stats>>
saveVars == <<ip_stats, ip_stats_file, default_limit, workers>>
cleanupVars == <<generated, cleaned_up>>

IdleAnalyze == generation = GenNone /\ response = NoResponse
IdleRange == from_date = NoDay /\ to_date = NoDay /\ by_date = <<>>
IdleNoise == cleaned = <<>> /\ recleaned = <<>>
IdleBudget == max_chars = 0 /\ allowed_ids = NoIds
IdleWhatsapp == chat_text = <<>> /\ pos = 0 /\ current = <<>>
IdleLimiter ==
    /\ rec = DefaultRecord(0)
    /\ feedback_bonus = 0
    /\ payment_enabled = FALSE
    /\ request = NoRequest
    /\ grant_calls = 0
IdlePayment == storage = <<>> /\ webhook_ok = {}
IdleThreads == lock = 0 /\ threads = <<>> /\ start_used = 0
IdleService == IdleLimiter /\ IdlePayment /\ IdleThreads
IdleExtract == content = <<>> /\ block = <<>>
IdleParser == html_str = <<>> /\ stats = NoStats
IdleCleanup == generated = {} /\ cleaned_up = NoCleanup
IdleSave ==
    /\ ip_stats = <<>>
    /\ ip_stats_file = <<>>
    /\ default_limit = 0
    /\ workers = <<>>

(***************************************************************************)
(* SpecAnalyze: one call of analyze_chat_text.                             *)
(***************************************************************************)
InitAnalyze ==
    /\ pc = "start"
    /\ snippet \in Snippets
    /\ generation = GenNone
    /\ response = NoResponse
    /\ messages = <<>>
    /\ IdleRange /\ IdleNoise /\ IdleBudget /\ IdleWhatsapp
    /\ IdleService /\ IdleExtract /\ IdleSave /\ IdleCleanup /\ IdleParser

AnalyzeChatText ==
    /\ pc = "start"
    /\ \E gen \in Generations :
          /\ generation' = gen
          /\ response' = analyze_chat_text(snippet, gen)
    /\ pc' = "done"
    /\ UNCHANGED <<snippet, messages, rangeVars, noiseVars, budgetVars, saveVars, cleanupVars, parserVars,
                   extractVars,
                   whatsappVars, serviceVars>>

NextAnalyze == AnalyzeChatText

SpecAnalyze == InitAnalyze /\ [][NextAnalyze]_vars

(***************************************************************************)
(* SpecRange: one call of filter_messages_by_date.                         *)
(***************************************************************************)
InitRange ==
    /\ pc = "start"
    /\ messages \in SeqsUpTo(RangeMessages, MaxMsgs)
    /\ from_date \in {NoDay} \cup 1..MaxDay
    /\ to_date \in {NoDay} \cup 1..MaxDay
    /\ by_date = <<>>
    /\ snippet = <<>>
    /\ IdleAnalyze /\ IdleNoise /\ IdleBudget /\ IdleWhatsapp
    /\ IdleService /\ IdleExtract /\ IdleSave /\ IdleCleanup /\ IdleParser

FilterMessagesByDate ==
    /\ pc = "start"
    /\ by_date' = filter_messages_by_date(messages, from_date, to_date)
    /\ pc' = "by_date"
    /\ UNCHANGED <<snippet, messages, from_date, to_date, analyzeVars,
                   noiseVars, budgetVars, saveVars, cleanupVars, parserVars,
                   extractVars, whatsappVars, serviceVars>>

NextRange == FilterMessagesByDate

SpecRange == InitRange /\ [][NextRange]_vars

(***************************************************************************)
(* SpecNoise: filter_noise_messages, then once more on its own result.     *)
(***************************************************************************)
InitNoise ==
    /\ pc = "start"
    /\ messages \in SeqsUpTo(NoiseMessages, MaxMsgs)
    /\ IdleNoise
    /\ snippet = <<>>
    /\ IdleAnalyze /\ IdleRange /\ IdleBudget /\ IdleWhatsapp
    /\ IdleService /\ IdleExtract /\ IdleSave /\ IdleCleanup /\ IdleParser

FilterNoiseMessages ==
    /\ pc = "start"
    /\ cleaned' = filter_noise_messages(messages)
    /\ pc' = "cleaned"
    /\ UNCHANGED <<snippet, messages, recleaned, analyzeVars, rangeVars,
                   budgetVars, saveVars, cleanupVars, parserVars, extractVars, whatsappVars, serviceVars>>

FilterNoiseMessagesAgain ==
    /\ pc = "cleaned"
    /\ recleaned' = filter_noise_messages(cleaned)
    /\ pc' = "recleaned"
    /\ UNCHANGED <<snippet, messages, cleaned, analyzeVars, rangeVars,
                   budgetVars, saveVars, cleanupVars, parserVars, extractVars, whatsappVars, serviceVars>>

NextNoise == FilterNoiseMessages \/ FilterNoiseMessagesAgain

SpecNoise == InitNoise /\ [][NextNoise]_vars

(***************************************************************************)
(* SpecSnippet: one call of _build_conversation_snippet.                   *)
(***************************************************************************)
InitSnippet ==
    /\ pc = "start"
    /\ messages \in SeqsUpTo(SnippetMessages, MaxMsgs)
    /\ max_chars \in 0..MaxChars
    /\ allowed_ids \in AllowedIds
    /\ snippet = <<>>
    /\ IdleAnalyze /\ IdleRange /\ IdleNoise /\ IdleWhatsapp
    /\ IdleService /\ IdleExtract /\ IdleSave /\ IdleCleanup /\ IdleParser

BuildConversationSnippet ==
    /\ pc = "start"
    /\ snippet' = _build_conversation_snippet(messages, max_chars, allowed_ids)
    /\ pc' = "snippet"
    /\ UNCHANGED <<messages, analyzeVars, rangeVars, noiseVars, budgetVars, saveVars, cleanupVars, parserVars,
                   extractVars,
                   whatsappVars, serviceVars>>

NextSnippet == BuildConversationSnippet

SpecSnippet == InitSnippet /\ [][NextSnippet]_vars

(***************************************************************************)
(* SpecWhatsapp: parse_whatsapp_txt, one step per line of the loop and one *)
(* for the end of the input.                                               *)
(***************************************************************************)
InitWhatsapp ==
    /\ pc = "parsing"
    /\ chat_text \in {JoinLines(ls) : ls \in SeqsUpTo(WhatsappLines, MaxLines)}
    /\ pos = 0
    /\ current = <<>>
    /\ messages = <<>>
    /\ snippet = <<>>
    /\ IdleAnalyze /\ IdleRange /\ IdleNoise /\ IdleBudget
    /\ IdleService /\ IdleExtract /\ IdleSave /\ IdleCleanup /\ IdleParser

\* the loop is at a line: raw_line.strip("\r\n") leaves a line of the
\* split text as it is
AtLine == pc = "parsing" /\ pos < Len(splitlines(chat_text))
Line == splitlines(chat_text)[pos + 1]

Consume ==
    /\ pos' = pos + 1
    /\ UNCHANGED <<pc, snippet, chat_text, analyzeVars, rangeVars, noiseVars,
                   budgetVars, saveVars, cleanupVars, parserVars, extractVars, serviceVars>>

BlankLine ==
    /\ AtLine
    /\ Strip(Line) = <<>>
    /\ UNCHANGED <<messages, current>>
    /\ Consume

SystemLine ==
    /\ AtLine
    /\ Strip(Line) # <<>>
    /\ IsSystemLine(Line)
    /\ messages' = CloseOnSystemLine(messages, current)
    /\ current' = <<>>
    /\ Consume

HeaderLine ==
    /\ AtLine
    /\ Strip(Line) # <<>>
    /\ ~IsSystemLine(Line)
    /\ _match_whatsapp_header(Line).matched
    /\ messages' = Flush(messages, current)
    /\ current' = OpenMessage(_match_whatsapp_header(Line))
    /\ Consume

ContinuationLine ==
    /\ AtLine
    /\ Strip(Line) # <<>>
    /\ ~IsSystemLine(Line)
    /\ ~_match_whatsapp_header(Line).matched
    /\ current' = ContinueMessage(current, Line)
    /\ UNCHANGED messages
    /\ Consume

EndOfInput ==
    /\ pc = "parsing"
    /\ pos = Len(splitlines(chat_text))
    /\ messages' = Flush(messages, current)
    /\ pc' = "parsed"
    /\ UNCHANGED <<snippet, chat_text, pos, current, analyzeVars, rangeVars,
                   noiseVars, budgetVars, saveVars, cleanupVars, parserVars, extractVars, serviceVars>>

NextWhatsapp ==
    \/ BlankLine
    \/ SystemLine
    \/ HeaderLine
    \/ ContinuationLine
    \/ EndOfInput

SpecWhatsapp == InitWhatsapp /\ [][NextWhatsapp]_vars

(***************************************************************************)
(* The handlers of one client IP, one request at a time (the handlers are  *)
(* coroutines that never yield between their steps).                       *)
(***************************************************************************)
InitService ==
    /\ pc = "serving"
    /\ rec \in {DefaultRecord(l) : l \in 0..MaxLimit}
    /\ feedback_bonus \in 0..MaxBonus
    /\ payment_enabled \in BOOLEAN
    /\ request = NoRequest
    /\ grant_calls = 0
    /\ storage = [i \in 1..MaxAnalyses |-> NoFile]
    /\ webhook_ok = {}
    /\ snippet = RequestSnippet
    /\ messages = <<>>
    /\ IdleAnalyze /\ IdleRange /\ IdleNoise /\ IdleBudget /\ IdleWhatsapp
    /\ IdleExtract /\ IdleSave /\ IdleCleanup /\ IdleParser
    /\ IdleThreads

AnalyzeChat ==
    /\ pc = "serving"
    /\ rec.analyze_used < MaxUsed
    /\ NextAnalysisId(storage) <= MaxAnalyses
    /\ \E chat_blank \in BOOLEAN, gen \in RequestGenerations :
          \E r \in {analyze_chat(rec, storage, payment_enabled, chat_blank, gen)} :
              /\ rec' = r.rec
              /\ storage' = r.storage
              /\ response' = r.response
              /\ request' = r.request
              /\ generation' = gen
    /\ UNCHANGED <<pc, snippet, messages, feedback_bonus, payment_enabled,
                   grant_calls, webhook_ok, rangeVars, noiseVars, budgetVars, saveVars, cleanupVars, parserVars,
                   extractVars,
                   whatsappVars, threadVars>>

SendFeedback ==
    /\ pc = "serving"
    /\ \E r \in {send_feedback(rec, feedback_bonus)} :
          /\ rec' = r.rec
          /\ request' = r.request
    /\ grant_calls' = IF grant_calls < 2 THEN grant_calls + 1 ELSE grant_calls
    /\ UNCHANGED <<pc, snippet, messages, analyzeVars, feedback_bonus,
                   payment_enabled, storage, webhook_ok, rangeVars, noiseVars,
                   budgetVars, saveVars, cleanupVars, parserVars, extractVars, whatsappVars, threadVars>>

CreatePayment ==
    /\ pc = "serving"
    /\ \E id \in 1..MaxAnalyses :
          request' = [Reply("create_payment", create_payment(storage, id), rec)
                         EXCEPT !.analysis_id = id]
    /\ UNCHANGED <<pc, snippet, messages, analyzeVars, rec, feedback_bonus,
                   payment_enabled, grant_calls, storage, webhook_ok, rangeVars,
                   noiseVars, budgetVars, saveVars, cleanupVars, parserVars,
                   extractVars, whatsappVars, threadVars>>

PaymentWebhook ==
    /\ pc = "serving"
    /\ \E body \in WebhookBodies :
          \E r \in {payment_webhook(storage, body)} :
              /\ storage' = r.storage
              /\ request' = [Reply("payment_webhook", r.status, rec)
                                EXCEPT !.analysis_id = body.analysis_id]
              /\ webhook_ok' =
                    IF body.status \in {"succeeded", "success"}
                    THEN webhook_ok \cup {body.analysis_id}
                    ELSE webhook_ok
    /\ UNCHANGED <<pc, snippet, messages, analyzeVars, rec, feedback_bonus,
                   payment_enabled, grant_calls, rangeVars, noiseVars,
                   budgetVars, saveVars, cleanupVars, parserVars, extractVars, whatsappVars, threadVars>>

GetFullAnalysis ==
    /\ pc = "serving"
    /\ \E id \in 1..MaxAnalyses :
          \E r \in {get_full_analysis(storage, id)} :
              request' = [Reply("get_full_analysis", r.status, rec)
                             EXCEPT !.analysis_id = id, !.full = r.full]
    /\ UNCHANGED <<pc, snippet, messages, analyzeVars, rec, feedback_bonus,
                   payment_enabled, grant_calls, storage, webhook_ok, rangeVars,
                   noiseVars, budgetVars, saveVars, cleanupVars, parserVars,
                   extractVars, whatsappVars, threadVars>>

\* SpecUsage: analysis requests and feedback submissions
NextUsage ==
    \/ AnalyzeChat
    \/ SendFeedback

SpecUsage == InitService /\ [][NextUsage]_vars

\* SpecPayment: analysis requests, payments and releases
InitPayment == InitService /\ feedback_bonus = 0

NextPayment ==
    \/ AnalyzeChat
    \/ CreatePayment
    \/ PaymentWebhook
    \/ GetFullAnalysis

SpecPayment == InitPayment /\ [][NextPayment]_vars

(***************************************************************************)
(* SpecLimiter: threads calling check_and_increment_analysis for the same  *)
(* IP, one step per statement: take the lock, read the record, test,       *)
(* increment and release.                                                  *)
(***************************************************************************)
Threads == 1..NThreads

InitLimiter ==
    /\ pc = "threads"
    /\ \E u \in 0..MaxLimit, l \in 0..MaxLimit :
          /\ rec = [DefaultRecord(l) EXCEPT !.analyze_used = u]
          /\ start_used = u
    /\ lock = 0
    /\ threads = [t \in Threads |-> IdleThread]
    /\ feedback_bonus = 0
    /\ payment_enabled = FALSE
    /\ request = NoRequest
    /\ grant_calls = 0
    /\ IdlePayment
    /\ snippet = <<>>
    /\ messages = <<>>
    /\ IdleAnalyze /\ IdleRange /\ IdleNoise /\ IdleBudget /\ IdleWhatsapp
    /\ IdleExtract /\ IdleSave /\ IdleCleanup /\ IdleParser

LimiterFrame ==
    UNCHANGED <<pc, snippet, messages, analyzeVars, feedback_bonus,
                payment_enabled, request, grant_calls, paymentVars, rangeVars,
                noiseVars, budgetVars, saveVars, cleanupVars, parserVars,
                   extractVars, whatsappVars, start_used>>

\* with self._lock:
AcquireLock(t) ==
    /\ threads[t].at = "idle"
    /\ threads[t].calls < MaxCalls
    /\ LockFree(lock)
    /\ lock' = t
    /\ threads' = [threads EXCEPT ![t].at = "locked", ![t].calls = @ + 1]
    /\ UNCHANGED rec
    /\ LimiterFrame

\* used = rec["analyze_used"]; limit = rec["analyze_limit"]
ReadRecord(t) ==
    /\ threads[t].at = "locked"
    /\ threads' = [threads EXCEPT ![t].at = "read",
                                  ![t].used = rec.analyze_used,
                                  ![t].limit = rec.analyze_limit]
    /\ UNCHANGED <<rec, lock>>
    /\ LimiterFrame

\* if used >= limit: return False (leaving the with block frees the lock)
ReturnFalse(t) ==
    /\ threads[t].at = "read"
    /\ ~UnderLimit(threads[t].used, threads[t].limit)
    /\ threads' = [threads EXCEPT ![t].at = "idle", ![t].falses = @ + 1]
    /\ lock' = 0
    /\ UNCHANGED rec
    /\ LimiterFrame

\* rec["analyze_used"] += 1, the lock is freed, return True
IncrementAndReturnTrue(t) ==
    /\ threads[t].at = "read"
    /\ UnderLimit(threads[t].used, threads[t].limit)
    /\ rec' = [rec EXCEPT !.analyze_used = @ + 1]
    /\ threads' = [threads EXCEPT ![t].at = "idle", ![t].trues = @ + 1]
    /\ lock' = 0
    /\ LimiterFrame

NextLimiter ==
    \E t \in Threads :
        \/ AcquireLock(t)
        \/ ReadRecord(t)
        \/ ReturnFalse(t)
        \/ IncrementAndReturnTrue(t)

SpecLimiter == InitLimiter /\ [][NextLimiter]_vars


(***************************************************************************)
(* Claims about analyze_chat_text (under SpecAnalyze).                     *)
(***************************************************************************)
Called == pc = "done" /\ Strip(snippet) # <<>>

\* the class of a generation, read off the response text alone
GenClass(gen) ==
    IF gen.kind = "raise" THEN "raises"
    ELSE IF gen.kind = "none" \/ Strip(gen.text) = <<>> THEN "empty"
    ELSE LET parsed == ParseContent(gen.text)
             data == parsed.data
         IN  IF parsed.exc # None THEN "unparsable"
             ELSE IF data.t # "obj" THEN "schema_invalid"
             ELSE IF Truthy(DictGet(data, K("is_fallback"), JNull)) THEN "schema_invalid"
             ELSE LET ps == DictGet(data, K("participants"), EmptyList)
                  IN  IF ps.t \in {"arr", "obj", "str"} /\ Iterate(ps).items = <<>>
                      THEN "zero_participants"
                      ELSE IF CoerceData(data).exc # None THEN "schema_invalid"
                      ELSE "valid"

IsPlaceholder(r) ==
    /\ r.participants = dummy_participants
    /\ r.relationship = dummy_relationship
    /\ r.recommendations = dummy_recommendations

\* C1: analyze_chat_text never raises because of the generation step: for
\* every generation (raising, empty, unparsable, not an object of the
\* expected shape, no participants) the call returns an AnalyzeResponse
\* whose participants, relationship and recommendations are all set.
C1_NeverRaises ==
    pc = "done" =>
        /\ response.raised = None
        /\ response.returned
        /\ response.participants # <<>>
        /\ response.is_fallback \in BOOLEAN
        /\ (response.is_fallback <=> response.error_message # None)

C1_Witness ==
    /\ Called
    /\ GenClass(generation) = "schema_invalid"
    /\ response.returned
    /\ response.error_message = "AttributeError"

\* C2 (as claimed): in every failure class of the generation, the result is
\* the placeholder result with is_fallback = true.
C2_FailureIsFlaggedFallback ==
    (Called /\ GenClass(generation) # "valid") =>
        (IsPlaceholder(response) /\ response.is_fallback = TRUE)

\* C3: every returned AnalyzeResponse has a non-empty participants list, and
\* a parsed response with zero participants is replaced by the placeholder
\* participants.
C3_ParticipantsNonEmpty ==
    pc = "done" =>
        /\ response.returned => Len(response.participants) >= 1
        /\ (Called /\ GenClass(generation) = "zero_participants")
               => response.participants = dummy_participants

C3_Witness ==
    /\ Called
    /\ GenClass(generation) = "zero_participants"
    /\ response.returned
    /\ response.participants = dummy_participants

\* the recommendations array of the parsed response (empty when missing)
ParsedRecommendations(gen) ==
    DictGet(ParseContent(gen.text).data, K("recommendations"), EmptyList)

C5_CountTest(t) ==
    /\ t # <<>>
    /\ t[Len(t)] = "}"
    /\ Count(t, "{") = Count(t, "}") + 1
    /\ Count(t, "[") = Count(t, "]") + 1

\* the strict parse of the extracted text failed
StrictFailed(gen) ==
    /\ gen.kind = "text"
    /\ Strip(gen.text) # <<>>
    /\ ~json_loads(_extract_json_block(gen.text)).ok

\* the right-trimmed extracted text, and that text completed by ] and }
Trimmed(gen) == RStrip(_extract_json_block(gen.text))
Completed(gen) == Trimmed(gen) \o <<"]", "}">>

HasParticipant(v) ==
    /\ v.t = "obj"
    /\ DictGet(v, K("participants"), EmptyList).t = "arr"
    /\ Len(DictGet(v, K("participants"), EmptyList).items) >= 1

\* a whole valid document that lost exactly its final ] and }
LostFinalClosers(gen) ==
    /\ gen.kind = "text"
    /\ gen.wrap = "bare"
    /\ gen.dropped = 2
    /\ Len(gen.doc) >= 2
    /\ SubSeq(gen.doc, Len(gen.doc) - 1, Len(gen.doc)) = <<"]", "}">>
    /\ GenClass(GenText(gen.doc)) = "valid"

\* the parts of C5 that hold as claimed: when the repair is attempted, what
\* it appends, the single retry, and the fallback when it does not help
C5_RepairRule ==
    LET pr == ParseContent(generation.text)
        retry == json_loads(Completed(generation))
    IN  /\ pr.loads <= 2
        /\ (pr.loads = 2) <=> C5_CountTest(Trimmed(generation))
        /\ (pr.loads = 2) => ((pr.exc = None) <=> retry.ok)
        /\ (pr.loads = 2 /\ retry.ok) => (pr.repaired /\ pr.data = retry.val)
        /\ (~C5_CountTest(Trimmed(generation)) \/ ~retry.ok) =>
               (response.is_fallback = TRUE /\ IsPlaceholder(response))

\* C5 (as claimed): on a failed strict parse the repair is attempted exactly
\* when the counting test passes, appends ] and } and retries once; a retry
\* that succeeds with at least one participant gives a VALID result with
\* is_fallback = false, a response missing only its final ]} yields its
\* participants, and otherwise the result is the fallback.
C5_TruncationRepair ==
    (Called /\ StrictFailed(generation)) =>
        LET retry == json_loads(Completed(generation))
        IN  /\ C5_RepairRule
            /\ (C5_CountTest(Trimmed(generation)) /\ retry.ok /\ HasParticipant(retry.val)) =>
                   (response.is_fallback = FALSE /\ ~IsPlaceholder(response))
            /\ LostFinalClosers(generation) =>
                   /\ response.is_fallback = FALSE
                   /\ response.participants =
                          CoerceData(json_loads(generation.doc).val).participants

\* C5 (amended): the repair rule as claimed; a retry that succeeds gives the
\* result of the completed text (VALID with is_fallback = false when that
\* text is a valid response); a response missing only its final ]} yields
\* its participants provided what is left ends with } and passes the
\* counting test.
C5_TruncationRepairAmended ==
    (Called /\ StrictFailed(generation)) =>
        LET retry == json_loads(Completed(generation))
            whole == analyze_chat_text(snippet, GenText(Completed(generation)))
        IN  /\ C5_RepairRule
            /\ (C5_CountTest(Trimmed(generation)) /\ retry.ok) =>
                   /\ response = whole
                   /\ GenClass(GenText(Completed(generation))) = "valid" =>
                          (response.is_fallback = FALSE /\ ~IsPlaceholder(response))
            /\ (/\ LostFinalClosers(generation)
                /\ C5_CountTest(RStrip(generation.text))) =>
                   /\ response.is_fallback = FALSE
                   /\ response.participants =
                          CoerceData(json_loads(generation.doc).val).participants

C5_Witness ==
    /\ Called
    /\ StrictFailed(generation)
    /\ LostFinalClosers(generation)
    /\ C5_CountTest(RStrip(generation.text))
    /\ response.is_fallback = FALSE
    /\ Len(response.participants) = 2

(***************************************************************************)
(* The range filter.                                                       *)
(***************************************************************************)
RangeSet == from_date # NoDay \/ to_date # NoDay

\* no message has a timestamp whose calendar day lies in the range
NoneInRange ==
    \A i \in 1..Len(messages) :
        \/ messages[i].date = NoDate
        \/ from_date # NoDay /\ messages[i].date.day < from_date
        \/ to_date # NoDay /\ messages[i].date.day > to_date

\* C6: for every message sequence and every range with at least one end
\* set, if no message has a timestamp whose date lies in the range,
\* filter_messages_by_date returns the sequence itself: the same messages
\* in the same order.
C6_RangeFilterSafety ==
    (pc = "by_date" /\ RangeSet /\ NoneInRange) => by_date = messages

\* messages dated on day 1 only (one of them undated) and the range day 2
\* to day 2: the full list comes back
C6_Witness ==
    /\ pc = "by_date"
    /\ from_date = 2
    /\ to_date = 2
    /\ messages = << TelegramMessage(<<"A">>, <<"hi">>, DateTime(1, 600)),
                     TelegramMessage(<<"B">>, <<"yo">>, NoDate),
                     TelegramMessage(<<"A">>, <<"hi">>, DateTime(1, 600)) >>
    /\ by_date = messages

(***************************************************************************)
(* The snippet builder.                                                    *)
(***************************************************************************)
\* C7: for every character budget b >= 0 and every message sequence, the
\* string returned by _build_conversation_snippet (the selected lines
\* joined by newlines) has length at most b.
C7_SnippetWithinBudget ==
    pc = "snippet" => StrLen(snippet) <= max_chars

(***************************************************************************)
(* The WhatsApp parser.                                                    *)
(***************************************************************************)
\* the loop is at a non-blank line that is neither a header nor a system
\* line, and a message is in progress
C8_AtContinuation ==
    /\ AtLine
    /\ Strip(Line) # <<>>
    /\ ~IsSystemLine(Line)
    /\ ~_match_whatsapp_header(Line).matched
    /\ current # <<>>

\* the header line of Alice followed by the line "thanks" gives exactly one
\* message, from Alice, with the text "Hi", newline, "thanks"
C8_ScenarioA ==
    (pc = "parsed" /\ chat_text = LineAliceHi \o <<NL>> \o LineThanks) =>
        /\ Len(messages) = 1
        /\ messages[1].from_name = <<"Alice">>
        /\ messages[1].text = <<"Hi", NL, "thanks">>

\* C8: in parse_whatsapp_txt, a non-blank line that matches no header
\* pattern and is not a system line, arriving while a message is in
\* progress, is appended to that message's text joined by a newline,
\* unless the line is exactly a media-placeholder marker, in which case it
\* is dropped and the text is unchanged; the header line of Alice followed
\* by the line "thanks" yields exactly one message with sender Alice and
\* text "Hi", newline, "thanks".
C8_ContinuationAppended ==
    /\ []C8_ScenarioA
    /\ [][ (C8_AtContinuation /\ pos' = pos + 1) =>
               /\ messages' = messages
               /\ current' =
                     IF Line \in MEDIA_MARKERS
                     THEN current
                     ELSE <<[current[1] EXCEPT !.text = @ \o <<NL>> \o Line]>>
         ]_vars

\* C8, amended: what is appended after the newline is the line with its
\* leading and trailing whitespace removed; the marker test is made on the
\* line as it stands, so a marker with surrounding whitespace is appended
\* (trimmed) rather than dropped.
C8_ContinuationAppendedTrimmed ==
    /\ []C8_ScenarioA
    /\ [][ (C8_AtContinuation /\ pos' = pos + 1) =>
               /\ messages' = messages
               /\ current' =
                     IF Line \in MEDIA_MARKERS
                     THEN current
                     ELSE <<[current[1] EXCEPT
                                !.text = @ \o <<NL>> \o Strip(Line)]>>
         ]_vars

\* a header, a continuation with surrounding whitespace and a marker line
\* have been parsed into one message
C8_Witness ==
    /\ pc = "parsed"
    /\ chat_text = JoinLines(<<LineAliceHi, LinePadded, LineMarker>>)
    /\ Len(messages) = 1
    /\ messages[1].text = <<"Hi", NL, "thanks">>

\* the names on the header lines of the input alphabet
C9_IsHeaderLine(line) ==
    line \in {LineAliceHi, LineBobMedia, LineCarolColon, LineBlankName}

C9_HeaderName(line) ==
    CASE line = LineAliceHi -> <<"Alice">>
      [] line = LineBobMedia -> <<"Bob">>
      [] line = LineCarolColon -> <<"Carol">>
      [] line = LineBlankName -> <<>>

\* the header lines among the first n lines of the input, in order
C9_HeadersIn(n) ==
    SelectSeq(SubSeq(splitlines(chat_text), 1, n), C9_IsHeaderLine)

\* C9: parse_whatsapp_txt emits exactly one message per header-matching
\* line, in input order: the sender ids of the output are the names on the
\* header lines.  A pending message is flushed at the end of the input
\* (every header line consumed so far is either an emitted message or the
\* message in progress), lines before the first header are dropped, and an
\* input without header lines yields the empty sequence.
C9_OneMessagePerHeader ==
    LET seen == C9_HeadersIn(pos)
        out == IF pc = "parsed" THEN messages ELSE messages \o current
    IN  /\ Len(out) = Len(seen)
        /\ \A k \in 1..Len(out) : out[k].from_name = C9_HeaderName(seen[k])
        /\ seen = <<>> => (messages = <<>> /\ current = <<>>)
        /\ pc = "parsed" => pos = Len(splitlines(chat_text))

\* a leading continuation line, then two headers: two messages, in order,
\* the second one flushed by the end of the input
C9_Witness ==
    /\ pc = "parsed"
    /\ chat_text = JoinLines(<<LineThanks, LineAliceHi, LineBobMedia>>)
    /\ Len(messages) = 2
    /\ messages[1].from_name = <<"Alice">>
    /\ messages[2].from_name = <<"Bob">>

(***************************************************************************)
(* The noise filter.                                                       *)
(***************************************************************************)
\* C10: filter_noise_messages is idempotent: applied to its own result it
\* returns that result.
C10_NoiseFilterIdempotent ==
    pc = "recleaned" => recleaned = cleaned

\* the first application removed something and kept something
C10_Witness ==
    /\ pc = "recleaned"
    /\ Len(cleaned) >= 1
    /\ Len(cleaned) < Len(messages)
    /\ recleaned = cleaned

\* C11: every message emitted by a dialect parser, for every input, has a
\* non-empty sender id and a text that is a string (possibly empty).  On
\* parse_whatsapp_txt: no message of the returned list has the empty
\* sender id.
C11_SenderNonEmpty ==
    pc = "parsed" => \A i \in 1..Len(messages) : messages[i].from_name # <<>>

(***************************************************************************)
(* The usage counter and the feedback bonus (under SpecUsage), the payment *)
(* gate (under SpecPayment), the atomic limit check (under SpecLimiter).   *)
(***************************************************************************)
\* C12: when an analyze_chat request ends with the placeholder analysis,
\* the usage increment made for it is rolled back: analyze_used after the
\* request equals analyze_used before it, with payments disabled or
\* enabled.
C12_PlaceholderNotCounted ==
    (request.op = "analyze_chat" /\ request.status = 200 /\ IsPlaceholder(response))
        => rec.analyze_used = request.used_before

\* the True returns of the threads 1..n so far
RECURSIVE TruesUpTo(_)
TruesUpTo(n) == IF n = 0 THEN 0 ELSE threads[n].trues + TruesUpTo(n - 1)

C13_Balance ==
    IF rec.analyze_limit > start_used THEN rec.analyze_limit - start_used ELSE 0

\* C13: check_and_increment_analysis returns True and increases
\* analyze_used by exactly 1 iff analyze_used < analyze_limit at the time
\* of the call, otherwise it returns False and leaves the record
\* unchanged; check and increment are atomic: under any interleaving of
\* concurrent calls for one IP the number of calls returning True never
\* exceeds analyze_limit minus the starting analyze_used.
C13_AtomicCheckAndIncrement ==
    /\ [](pc = "threads" =>
            /\ TruesUpTo(NThreads) <= C13_Balance
            /\ rec.analyze_used = start_used + TruesUpTo(NThreads))
    /\ [][ \A t \in DOMAIN threads :
              /\ threads'[t].trues # threads[t].trues =>
                    /\ rec.analyze_used < rec.analyze_limit
                    /\ rec'.analyze_used = rec.analyze_used + 1
              /\ threads'[t].falses # threads[t].falses =>
                    /\ ~(rec.analyze_used < rec.analyze_limit)
                    /\ rec' = rec
         ]_vars

\* two threads have called at a record with room for one analysis: one
\* call returned True, the other False
C13_Witness ==
    /\ pc = "threads"
    /\ rec.analyze_limit = start_used + 1
    /\ \E t, u \in DOMAIN threads :
          /\ t # u
          /\ threads[t].trues = 1
          /\ threads[u].falses >= 1
    /\ rec.analyze_used = rec.analyze_limit

\* C14: the feedback bonus is granted once per IP: over any sequence of
\* feedback submissions and analysis requests, the first
\* grant_feedback_bonus call with a positive configured bonus raises
\* analyze_limit just enough that analyze_limit - analyze_used is at least
\* the bonus, never lowering the limit, and every later call returns 0 and
\* changes neither limit nor used.
C14_BonusOnce ==
    (request.op = "send_feedback" /\ feedback_bonus > 0) =>
        LET before == request.limit_before - request.used_before
        IN  /\ rec.analyze_used = request.used_before
            /\ grant_calls = 1 =>
                  /\ rec.analyze_limit >= request.limit_before
                  /\ rec.analyze_limit - rec.analyze_used >= feedback_bonus
                  /\ before >= feedback_bonus =>
                        rec.analyze_limit = request.limit_before
                  /\ before < feedback_bonus =>
                        rec.analyze_limit - rec.analyze_used = feedback_bonus
                  /\ request.granted = rec.analyze_limit - request.limit_before
            /\ grant_calls > 1 =>
                  /\ request.granted = 0
                  /\ rec.analyze_limit = request.limit_before

\* a later feedback from an IP whose balance has dropped under the bonus
\* again: nothing is granted
C14_Witness ==
    /\ request.op = "send_feedback"
    /\ feedback_bonus > 0
    /\ grant_calls > 1
    /\ rec.feedback_bonus_used
    /\ rec.analyze_limit - rec.analyze_used < feedback_bonus
    /\ request.granted = 0

ObjectPlain == ObjOf(Member("a", Q("x")))
ObjectNested == ObjOf(Member("a", ObjOf(<<>>)))

ExtractPrefixes ==
    { <<>>,
      <<"Here", SP, "is", SP>>,
      <<FENCE, "json", NL>>,
      <<FENCE, NL>>,
      <<"json", NL>>,
      <<SP, "JSON", SP>> }

ExtractBodies ==
    { <<>>,
      ObjectPlain,
      ObjectNested,
      <<"none">>,
      <<"}", SP, "{">>,
      <<"{", QUOTE, "a">> }

ExtractSuffixes ==
    { <<>>,
      <<NL, FENCE>>,
      <<NL, FENCE, NL, "see", SP, "{", "x", "}">>,
      <<NL, "---", NL, "see", SP, "{", "x", "}">>,
      <<NL, "Note:", SP, "{", "x", "}">>,
      <<NL, FENCE, NL, "{", "x", "}", NL, FENCE>>,
      <<NL, "thanks">> }

ExtractInputs ==
    {p \o b \o s : p \in ExtractPrefixes, b \in ExtractBodies, s \in ExtractSuffixes}

InitExtract ==
    /\ pc = "start"
    /\ content \in ExtractInputs
    /\ block = <<>>
    /\ snippet = <<>>
    /\ messages = <<>>
    /\ IdleAnalyze /\ IdleRange /\ IdleNoise /\ IdleBudget /\ IdleWhatsapp
    /\ IdleService /\ IdleParser /\ IdleSave /\ IdleCleanup

ExtractJsonBlock ==
    /\ pc = "start"
    /\ block' = _extract_json_block(content)
    /\ pc' = "extracted"
    /\ UNCHANGED <<snippet, messages, content, analyzeVars, rangeVars, noiseVars,
                   budgetVars, saveVars, cleanupVars, parserVars, whatsappVars, serviceVars>>

NextExtract == ExtractJsonBlock

SpecExtract == InitExtract /\ [][NextExtract]_vars

(***************************************************************************)
(* Claims about _extract_json_block (under SpecExtract).                   *)
(***************************************************************************)
\* the text between the first and the last fence marker when there are at
\* least two, the text itself otherwise
C17_Unfenced(text) ==
    LET fences == {i \in 1..Len(text) : text[i] = FENCE}
    IN  IF Cardinality(fences) >= 2
        THEN SubSeq(text, MinOf(fences) + 1, MaxOf(fences) - 1)
        ELSE text

\* the text without a leading label (and the whitespace around the label)
C17_Unlabelled(text) ==
    LET solid == {i \in 1..Len(text) : text[i] \notin {SP, NL}}
    IN  IF solid # {} /\ text[MinOf(solid)] \in {"json", "JSON"}
        THEN LET rest == {i \in solid : i > MinOf(solid)}
             IN  IF rest = {} THEN <<>> ELSE SubSeq(text, MinOf(rest), Len(text))
        ELSE text

\* from the first { to the last } if some { stands before some }
C17_Span(text) ==
    LET opens == {i \in 1..Len(text) : text[i] = "{"}
        closes == {i \in 1..Len(text) : text[i] = "}"}
    IN  IF \E o \in opens, c \in closes : o < c
        THEN SubSeq(text, MinOf(opens), MaxOf(closes))
        ELSE text

C18_Markers == {FENCE, "---", "Note:"}

\* the markers after the first } of an object that opens before it
C18_MarkersAfter ==
    {i \in 1..Len(content) :
        content[i] \in C18_Markers /\ i > Find(content, "}")}

C18_HasTrailingMarker ==
    /\ Find(content, "{") # 0
    /\ Find(content, "{") < Find(content, "}")
    /\ C18_MarkersAfter # {}

\* C18: when a trailing-commentary marker (a fixed substring, a closing
\* fence or a horizontal rule) stands after the object's first }, the
\* extracted span ends at the last } before the earliest such marker, not
\* at the last } of the whole response.
C18_MarkerReanchors ==
    (pc = "extracted" /\ C18_HasTrailingMarker) =>
        block = SubSeq(content, Find(content, "{"),
                       MaxOf({j \in 1..Len(content) :
                                 content[j] = "}" /\ j < MinOf(C18_MarkersAfter)}))

\* the positions the span is taken from: between the first and the last
\* fence marker when there are at least two, all of them otherwise
C18_Region ==
    LET fences == {i \in 1..Len(content) : content[i] = FENCE}
    IN  IF Cardinality(fences) >= 2
        THEN (MinOf(fences) + 1)..(MaxOf(fences) - 1)
        ELSE 1..Len(content)

\* C18, amended: the only commentary that is cut is what follows the last
\* fence marker of a response with at least two fence markers; the span is
\* then taken between the first and the last fence marker and ends at the
\* last } before the last fence marker.  No other marker is recognised (no
\* fixed substring, no horizontal rule, no single fence marker): there the
\* span ends at the last } of the whole response.
C18_OnlyLastFenceReanchors ==
    (pc = "extracted" /\ C18_HasTrailingMarker) =>
        LET opens == {i \in C18_Region : content[i] = "{"}
            closes == {i \in C18_Region : content[i] = "}"}
        IN  (\E o \in opens, c \in closes : o < c) =>
                block = SubSeq(content, MinOf(opens), MaxOf(closes))

\* a fenced object followed by commentary that holds braces: the span ends
\* before the closing fence
C18_Witness ==
    /\ pc = "extracted"
    /\ content = <<FENCE, "json", NL>> \o ObjectPlain
                     \o <<NL, FENCE, NL, "see", SP, "{", "x", "}">>
    /\ block = ObjectPlain

(***************************************************************************)
(* SpecRaw: one call of analyze_chat_text on a non-blank snippet whose     *)
(* generation response is a JSON object in the shape of SYSTEM_PROMPT,     *)
(* with one participant, some fields left out, and string values that hold *)
(* fences, braces, brackets or the word json.                              *)
(***************************************************************************)
\* a JSON string with the content s
QS(s) == <<QUOTE>> \o s \o <<QUOTE>>

RawStrings ==
    { <<"x">>,
      <<FENCE>>,
      <<FENCE, "a", FENCE>>,
      <<"a", "}">>,
      <<"{", "a">>,
      <<"[", "a">>,
      <<"json">> }

RawTraits == ObjOf(Member("mood", Q("calm")))

\* one participant whose summary is s: complete, or with fields left out
RawParticipants(s) ==
    { ObjOf(Member("id", Q("USER_1")) \o Member("display_name", Q("Ann"))
            \o Member("traits", RawTraits) \o Member("summary", QS(s))),
      ObjOf(Member("display_name", Q("Ann")) \o Member("summary", QS(s))),
      ObjOf(Member("id", Q("USER_1")) \o Member("summary", QS(s))),
      ObjOf(Member("id", Q("USER_1")) \o Member("display_name", Q("Ann"))),
      ObjOf(Member("display_name", QS(<<>>)) \o Member("summary", QS(s))),
      ObjOf(Member("summary", QS(s))) }

RawRelationships ==
    { <<>>,
      Member("relationship", RelFull),
      Member("relationship", ObjOf(<<>>)),
      Member("relationship", ObjOf(Member("red_flags", ArrOf(<<Q("r")>>)))) }

\* the recommendations member, the text of the recommendation being s
RawRecommendations(s) ==
    { <<>>,
      Member("recommendations", ArrOf(<<ObjOf(Member("title", Q("t")))>>)),
      Member("recommendations",
             ArrOf(<<ObjOf(Member("title", Q("t")) \o Member("text", QS(s)))>>)),
      Member("recommendations", ArrOf(<<ObjOf(Member("text", QS(s)))>>)) }

RawDocuments ==
    {ObjOf(Member("participants", ArrOf(<<p>>)) \o rel \o recs) :
        p \in UNION {RawParticipants(s) : s \in RawStrings},
        rel \in RawRelationships,
        recs \in UNION {RawRecommendations(s) : s \in RawStrings}}

InitRaw ==
    /\ pc = "start"
    /\ snippet = RequestSnippet
    /\ generation = GenNone
    /\ response = NoResponse
    /\ messages = <<>>
    /\ IdleRange /\ IdleNoise /\ IdleBudget /\ IdleWhatsapp
    /\ IdleService /\ IdleExtract /\ IdleSave /\ IdleCleanup /\ IdleParser

AnalyzeRawObject ==
    /\ pc = "start"
    /\ \E doc \in RawDocuments :
          /\ generation' = GenText(doc)
          /\ response' = analyze_chat_text(snippet, GenText(doc))
    /\ pc' = "done"
    /\ UNCHANGED <<snippet, messages, rangeVars, noiseVars, budgetVars, saveVars, cleanupVars, parserVars,
                   extractVars, whatsappVars, serviceVars>>

NextRaw == AnalyzeRawObject

SpecRaw == InitRaw /\ [][NextRaw]_vars

(***************************************************************************)
(* Claims about the generation response that is a JSON object (under       *)
(* SpecRaw).                                                               *)
(***************************************************************************)
\* C16: if the raw generation response is itself a well-formed JSON object
\* in the canonical shape with at least one participant, analyze_chat_text
\* returns the coerced contents of that object with is_fallback = false,
\* whatever its string values hold (fences, braces or brackets, the word
\* json).
C16_RawObjectIsValid ==
    pc = "done" =>
        \A parsed \in {json_loads(generation.text)} :
            /\ parsed.ok
            /\ \A coerced \in {CoerceData(parsed.val)} :
                  /\ response.raised = None
                  /\ response.returned
                  /\ response.is_fallback = FALSE
                  /\ response.participants = coerced.participants
                  /\ response.relationship = coerced.relationship
                  /\ response.recommendations = coerced.recommendations

\* the object of the response, a field of an object, and whether it is there
C19_Has(o, k) == \E i \in 1..Len(o.keys) : o.keys[i] = <<k>>
C19_Get(o, k) == o.items[CHOOSE i \in 1..Len(o.keys) : o.keys[i] = <<k>>]
C19_Str(o, k) == C19_Get(o, k).s

\* the response was the object itself and its coercion was returned
C19_Coerced ==
    /\ pc = "done"
    /\ response.returned
    /\ response.is_fallback = FALSE
    /\ _extract_json_block(generation.text) = generation.text

\* the defaults of the fields other than id, display_name and title
C19_OtherDefaults(data) ==
    LET p == C19_Get(data, "participants").items[1]
        out == response.participants[1]
        rel == response.relationship
    IN  /\ ~C19_Has(p, "summary") => out.summary = <<>>
        /\ ~C19_Has(p, "traits") => out.traits.items = <<>>
        /\ \A f \in {"description", "red_flags", "green_flags"} :
              (~C19_Has(data, "relationship")
                   \/ ~C19_Has(C19_Get(data, "relationship"), f)) =>
                  rel[f] = <<>>
        /\ ~C19_Has(data, "recommendations") => response.recommendations = <<>>
        /\ C19_Has(data, "recommendations") =>
              \A i \in 1..Len(response.recommendations) :
                  ~C19_Has(C19_Get(data, "recommendations").items[i], "text") =>
                      response.recommendations[i].text = <<>>

\* C19: coercion of a parsed object uses a default-on-missing policy for
\* every field: a participant missing id takes its display_name and one
\* missing display_name takes its id; every missing free-text field
\* (participant summary, relationship description, recommendation title and
\* text) becomes the empty string; every missing collection (traits,
\* red_flags, green_flags, recommendations) becomes empty.
C19_DefaultOnMissing ==
    C19_Coerced =>
        \A data \in {json_loads(generation.text).val} :
            LET p == C19_Get(data, "participants").items[1]
                out == response.participants[1]
            IN  /\ (~C19_Has(p, "id") /\ C19_Has(p, "display_name")) =>
                       out.id = C19_Str(p, "display_name")
                /\ (~C19_Has(p, "display_name") /\ C19_Has(p, "id")) =>
                       out.display_name = C19_Str(p, "id")
                /\ C19_OtherDefaults(data)
                /\ C19_Has(data, "recommendations") =>
                      \A i \in 1..Len(response.recommendations) :
                          ~C19_Has(C19_Get(data, "recommendations").items[i], "title")
                              => response.recommendations[i].title = <<>>

\* the name a participant takes from field k, the fixed name when the field
\* is missing or empty
C19_NameFrom(p, k) ==
    IF C19_Has(p, k) /\ C19_Str(p, k) # <<>> THEN C19_Str(p, k) ELSE <<"USER">>

\* C19, amended: a participant missing id takes its display_name and one
\* missing display_name takes its id, and when the name to take is itself
\* missing or empty the fixed name USER is used; a missing participant
\* summary, relationship description or recommendation text becomes the
\* empty string, while a missing recommendation title becomes the fixed
\* title; every missing collection becomes empty.
C19_DefaultOnMissingFixedTitle ==
    C19_Coerced =>
        \A data \in {json_loads(generation.text).val} :
            LET p == C19_Get(data, "participants").items[1]
                out == response.participants[1]
            IN  /\ ~C19_Has(p, "id") => out.id = C19_NameFrom(p, "display_name")
                /\ ~C19_Has(p, "display_name") =>
                       out.display_name = C19_NameFrom(p, "id")
                /\ C19_OtherDefaults(data)
                /\ C19_Has(data, "recommendations") =>
                      \A i \in 1..Len(response.recommendations) :
                          ~C19_Has(C19_Get(data, "recommendations").items[i], "title")
                              => response.recommendations[i].title =
                                     <<"Rekomendatsiya">>

\* a participant with a display_name only, no relationship, a
\* recommendation with a text only
C19_Witness ==
    /\ pc = "done"
    /\ generation.text =
           ObjOf(Member("participants",
                        ArrOf(<<ObjOf(Member("display_name", Q("Ann"))
                                      \o Member("summary", Q("x")))>>))
                 \o Member("recommendations", ArrOf(<<ObjOf(Member("text", Q("x")))>>)))
    /\ response.is_fallback = FALSE
    /\ response.participants[1].id = <<"Ann">>
    /\ response.participants[1].traits.items = <<>>
    /\ response.relationship.description = <<>>
    /\ response.recommendations[1].title = <<"Rekomendatsiya">>

(***************************************************************************)
(* The range filter, what it returns (under SpecRange).                    *)
(***************************************************************************)
\* the positions of the messages that carry a timestamp whose calendar day
\* lies in the closed range, a missing end being unbounded
C20_InRangeAt ==
    {i \in 1..Len(messages) :
        /\ messages[i].date # NoDate
        /\ from_date = NoDay \/ from_date <= messages[i].date.day
        /\ to_date = NoDay \/ messages[i].date.day <= to_date}

\* the messages at these positions, in the order of the input
C20_Subsequence ==
    [k \in 1..Cardinality(C20_InRangeAt) |->
        messages[CHOOSE i \in C20_InRangeAt :
                     Cardinality({j \in C20_InRangeAt : j < i}) = k - 1]]

\* C20: with at least one end set and at least one message in range,
\* filter_messages_by_date returns exactly the subsequence, in the original
\* order, of the messages that carry a timestamp whose calendar day d has
\* from_date <= d <= to_date (both ends inclusive, a missing end unbounded);
\* messages without timestamp are dropped.  With neither end set the input
\* is returned unchanged, messages without timestamp included.
C20_ExactRange ==
    pc = "by_date" =>
        /\ (RangeSet /\ C20_InRangeAt # {}) => by_date = C20_Subsequence
        /\ ~RangeSet => by_date = messages

\* the range day 2 to day 2: the message of the last minute of day 2 is
\* kept, the message of day 1 and the undated one are dropped
C20_Witness ==
    /\ pc = "by_date"
    /\ from_date = 2
    /\ to_date = 2
    /\ messages = << TelegramMessage(<<"A">>, <<"hi">>, DateTime(1, 600)),
                     TelegramMessage(<<"B">>, <<"yo">>, DateTime(2, 1439)),
                     TelegramMessage(<<"B">>, <<"yo">>, NoDate) >>
    /\ by_date = << TelegramMessage(<<"B">>, <<"yo">>, DateTime(2, 1439)) >>

(***************************************************************************)
(* The noise filter, what it returns (under SpecNoise).                    *)
(***************************************************************************)
\* the text between its first and its last character that is not whitespace
C21_Trimmed(text) ==
    LET solid == {i \in 1..Len(text) : text[i] \notin {SP, NL}}
    IN  IF solid = {} THEN <<>> ELSE SubSeq(text, MinOf(solid), MaxOf(solid))

\* the system-action patterns, in lower case: fixed phrases, and the
\* encryption notice with any run of characters of one line in its middle
C21_Phrases ==
    { "vy sozdali gruppu", "vy izmenili foto gruppy", "vy izmenili temu besedy",
      "vy zakrepili soobshchenie", "vy udalili soobshchenie", "bez mediafajlov",
      "propushchennyj audiozvonok" }

C21_MatchesPattern(low) ==
    \/ \E i \in 1..Len(low) : low[i] \in C21_Phrases
    \/ \E i \in 1..Len(low), j \in 1..Len(low) :
           /\ low[i] = "soobshcheniya i zvonki"
           /\ low[j] = "zashchishcheny skvoznym shifrovaniem"
           /\ j >= i + 3
           /\ low[i + 1] = SP
           /\ low[j - 1] = SP
           /\ \A k \in (i + 1)..(j - 1) : low[k] # NL

\* empty or whitespace only, or the trimmed lower-case text is a media
\* placeholder, or a system-action pattern matches in it
C21_IsNoise(text) ==
    \/ C21_Trimmed(text) = <<>>
    \/ lower(C21_Trimmed(text)) \in MEDIA_PLACEHOLDERS
    \/ C21_MatchesPattern(lower(C21_Trimmed(text)))

C21_KeptAt == {i \in 1..Len(messages) : ~C21_IsNoise(messages[i].text)}

\* C21: filter_noise_messages returns exactly the subsequence of the input
\* messages, in the original order and each unmodified, whose text is not
\* noise; a text is noise iff it is empty or whitespace only, or its trimmed
\* lower-case form is one of the media-placeholder strings, or a
\* system-action pattern matches it whatever the case; emoji-only and
\* single-word texts are kept.
C21_NoiseFilterExact ==
    pc \in {"cleaned", "recleaned"} =>
        /\ cleaned =
              [k \in 1..Cardinality(C21_KeptAt) |->
                  messages[CHOOSE i \in C21_KeptAt :
                               Cardinality({j \in C21_KeptAt : j < i}) = k - 1]]
        /\ \A i \in 1..Len(messages) :
              messages[i].text \in {<<"OK">>, <<"<thumbs up emoji>">>} =>
                  i \in C21_KeptAt

\* a padded placeholder is removed, the emoji and the placeholder inside a
\* sentence are kept, in order
C21_Witness ==
    /\ pc = "cleaned"
    /\ messages = << TelegramMessage(<<"A">>, <<"<thumbs up emoji>">>, NoDate),
                     TelegramMessage(<<"A">>, <<SP, "<Media omitted>", SP>>, NoDate),
                     TelegramMessage(<<"A">>, <<"see", SP, "<media omitted>">>, NoDate) >>
    /\ cleaned = << messages[1], messages[3] >>

(***************************************************************************)
(* The WhatsApp parser and the encryption notice (under SpecWhatsapp).     *)
(***************************************************************************)
\* the loop is at a non-blank line that starts with an encryption-notice
\* prefix
C22_AtNotice ==
    /\ AtLine
    /\ \E k \in 1..Len(Line) : Line[k] \notin {SP, NL}
    /\ Line[1] \in SYSTEM_PREFIXES

\* the loop is at a non-blank line that is no header and no notice
C22_AtPlainLine ==
    /\ AtLine
    /\ \E k \in 1..Len(Line) : Line[k] \notin {SP, NL}
    /\ Line[1] \notin SYSTEM_PREFIXES
    /\ Line[1] \notin HeaderStamps

\* C22: in parse_whatsapp_txt, a line starting with an encryption-notice
\* prefix closes the message in progress, emitting it with its text as
\* accumulated so far, and is itself discarded: it never becomes a message
\* or part of a message's text, emitted messages are never changed, and
\* non-header lines that follow it before the next header are not appended
\* to the closed message.
C22_NoticeClosesMessage ==
    /\ [](\A i \in 1..Len(messages \o current) :
             \A k \in 1..Len((messages \o current)[i].text) :
                 (messages \o current)[i].text[k] \notin SYSTEM_PREFIXES)
    /\ [][ /\ (C22_AtNotice /\ pos' = pos + 1) =>
                  (messages' = messages \o current /\ current' = <<>>)
           /\ (C22_AtPlainLine /\ current = <<>> /\ pos' = pos + 1) =>
                  (messages' = messages /\ current' = <<>>)
           /\ Len(messages') >= Len(messages)
           /\ \A i \in 1..Len(messages) : messages'[i] = messages[i]
         ]_vars

\* a header, the notice, a plain line: one message whose text is that of
\* the header line
C22_Witness ==
    /\ pc = "parsed"
    /\ chat_text = JoinLines(<<LineAliceHi, LineSystem, LineThanks>>)
    /\ Len(messages) = 1
    /\ messages[1].from_name = <<"Alice">>
    /\ messages[1].text = <<"Hi">>

(***************************************************************************)
(* parse_telegram_html.  html_str is the export as BeautifulSoup sees it:  *)
(* the div.message elements in document order.  Of each element the model *)
(* keeps whether it has a div.body, the div.from_name directly under the   *)
(* body (or none), the div.text (or none) and the date title.              *)
(***************************************************************************)
NoAuthor == [present |-> FALSE, name |-> <<>>]
Author(name) == [present |-> TRUE, name |-> name]
NoText == [present |-> FALSE, text |-> <<>>]
Text(text) == [present |-> TRUE, text |-> text]

DATE_NONE == "no date div"
DATE_TITLE == "01.02.2023 10:00:00"
DATE_BAD == "not a date"

MessageDiv(body, from_div, text_div, date_div) ==
    [body |-> body, from_div |-> from_div, text_div |-> text_div,
     date_div |-> date_div]

\* a div.message without div.body
NoBodyDiv == MessageDiv(FALSE, NoAuthor, NoText, DATE_NONE)

\* dateparser.parse(raw) in try/except
DivDate(date_div) ==
    IF date_div = DATE_TITLE THEN DateTime(32, 600) ELSE NoDate

\* a joined block that never finds an author
FromNameOwnOnly(div, last_from_name) == div.from_div

\* lines 35-42: the author of the block, last_from_name when it has none
\* (not present: last_from_name is None, the block is skipped)
FromName(div, last_from_name) ==
    IF div.from_div.present THEN div.from_div ELSE last_from_name

\* the loop of lines 29-62 over the blocks left, with last_from_name and
\* the messages appended so far
RECURSIVE ParseDivs(_, _, _)
ParseDivs(divs, last_from_name, out) ==
    IF divs = <<>>
    THEN out
    ELSE IF ~Head(divs).body
         THEN ParseDivs(Tail(divs), last_from_name, out)
         ELSE IF ~FromName(Head(divs), last_from_name).present
              THEN ParseDivs(Tail(divs), last_from_name, out)
              ELSE ParseDivs(Tail(divs), FromName(Head(divs), last_from_name),
                             Append(out,
                                    TelegramMessage(
                                        FromName(Head(divs), last_from_name).name,
                                        Head(divs).text_div.text,
                                        DivDate(Head(divs).date_div))))

parse_telegram_html(divs) == ParseDivs(divs, NoAuthor, <<>>)

TelegramDivs ==
    {NoBodyDiv}
    \cup {MessageDiv(TRUE, a, t, d) :
             a \in {NoAuthor, Author(<<"Ann">>), Author(<<"Bob">>)},
             t \in {NoText, Text(<<"hi">>)},
             d \in {DATE_NONE, DATE_TITLE}}
    \cup {MessageDiv(TRUE, Author(<<"Ann">>), Text(<<"yo">>), DATE_BAD)}

(***************************************************************************)
(* SpecTelegram: one call of parse_telegram_html.                          *)
(***************************************************************************)
InitTelegram ==
    /\ pc = "start"
    /\ html_str \in SeqsUpTo(TelegramDivs, MaxBlocks)
    /\ stats = NoStats
    /\ messages = <<>>
    /\ snippet = <<>>
    /\ IdleAnalyze /\ IdleRange /\ IdleNoise /\ IdleBudget /\ IdleWhatsapp
    /\ IdleService /\ IdleExtract /\ IdleSave /\ IdleCleanup

ParseTelegramHtml ==
    /\ pc = "start"
    /\ messages' = parse_telegram_html(html_str)
    /\ pc' = "parsed"
    /\ UNCHANGED <<snippet, html_str, stats, analyzeVars, rangeVars, noiseVars,
                   budgetVars, saveVars, cleanupVars, extractVars, whatsappVars, serviceVars>>

NextTelegram == ParseTelegramHtml

SpecTelegram == InitTelegram /\ [][NextTelegram]_vars

(***************************************************************************)
(* Claims about parse_telegram_html (under SpecTelegram).                  *)
(***************************************************************************)
C23_Authored(i) == html_str[i].body /\ html_str[i].from_div.present

\* the last block with an author at or before block i
C23_AuthorAt(i) ==
    html_str[MaxOf({j \in 1..i : C23_Authored(j)})].from_div.name

\* the k-th smallest position of a set of positions
C23_Nth(S, k) == CHOOSE i \in S : Cardinality({j \in S : j < i}) = k - 1

\* the messages are those of the blocks at the positions S, in document
\* order, each with its own author or the author of the message before it
C23_MessagesOf(S) ==
    /\ Len(messages) = Cardinality(S)
    /\ \A k \in 1..Len(messages) :
          /\ messages[k].from_name = C23_AuthorAt(C23_Nth(S, k))
          /\ messages[k].text = html_str[C23_Nth(S, k)].text_div.text
          /\ k > 1 /\ ~C23_Authored(C23_Nth(S, k)) =>
                 messages[k].from_name = messages[k - 1].from_name

\* C23: parse_telegram_html folds over the message blocks in document
\* order: a block with an author element takes that author; a block without
\* one takes the author of the immediately preceding message; a block
\* without author before any block with an author is skipped; the output is
\* in the document order of the emitted blocks.
C23_FoldOverBlocks ==
    pc = "parsed" =>
        C23_MessagesOf({i \in 1..Len(html_str) : \E j \in 1..i : C23_Authored(j)})

\* C23, amended: the same, and a block without a body element is skipped
\* wherever it stands (it emits nothing and changes no author).
C23_FoldOverBodies ==
    pc = "parsed" =>
        C23_MessagesOf({i \in 1..Len(html_str) :
                           html_str[i].body /\ \E j \in 1..i : C23_Authored(j)})

\* a leading joined block is skipped, Ann's block is emitted, the joined
\* block after it is Ann's
C23_Witness ==
    /\ pc = "parsed"
    /\ html_str = << MessageDiv(TRUE, NoAuthor, Text(<<"hi">>), DATE_NONE),
                     MessageDiv(TRUE, Author(<<"Ann">>), Text(<<"yo">>), DATE_BAD),
                     MessageDiv(TRUE, NoAuthor, Text(<<"hi">>), DATE_TITLE) >>
    /\ Len(messages) = 2
    /\ messages[1].from_name = <<"Ann">>
    /\ messages[2].from_name = <<"Ann">>
    /\ messages[2].text = <<"hi">>

(***************************************************************************)
(* compute_stats_from_messages.                                            *)
(***************************************************************************)
\* the positions of the messages of a sender, and the senders in the order
\* in which per_user_length meets them (the order of dict.items())
PositionsOf(msgs, user) == {i \in 1..Len(msgs) : msgs[i].from_name = user}

SendersInOrder(msgs) ==
    LET firsts == {i \in 1..Len(msgs) :
                      \A j \in 1..(i - 1) : msgs[j].from_name # msgs[i].from_name}
    IN  [k \in 1..Cardinality(firsts) |->
            msgs[CHOOSE i \in firsts :
                     Cardinality({j \in firsts : j < i}) = k - 1].from_name]

\* user.startswith("USER_"): the chunks that begin with these characters
USER_CHUNKS == {"USER_1", "USER_2", "USER_3"}

StartsWithUser(user) == user # <<>> /\ Head(user) \in USER_CHUNKS

\* sum(lengths)
RECURSIVE SumLengths(_, _)
SumLengths(msgs, at) ==
    IF at = {} THEN 0
    ELSE StrLen(msgs[MinOf(at)].text) + SumLengths(msgs, at \ {MinOf(at)})

\* round(sum / count, 1) in tenths: to the nearest tenth, a tie to the even
\* one
RoundTenths(sum, count) ==
    LET q == (10 * sum) \div count
        r == (10 * sum) % count
    IN  IF 2 * r < count THEN q
        ELSE IF 2 * r > count THEN q + 1
        ELSE IF q % 2 = 0 THEN q ELSE q + 1

ParticipantStats(user, count, avg_tenths) ==
    [id |-> user, messages_count |-> count, avg_message_length |-> avg_tenths]

\* an insertion that puts p before the entries with the same count
InsertBeforeEqual(sorted, p) ==
    LET k == Cardinality({i \in 1..Len(sorted) :
                             sorted[i].messages_count > p.messages_count})
    IN  SubSeq(sorted, 1, k) \o <<p>> \o SubSeq(sorted, k + 1, Len(sorted))

\* list.sort(key=messages_count, reverse=True) is stable: p goes after the
\* entries with a count at least its own
InsertByCount(sorted, p) ==
    LET k == Cardinality({i \in 1..Len(sorted) :
                             sorted[i].messages_count >= p.messages_count})
    IN  SubSeq(sorted, 1, k) \o <<p>> \o SubSeq(sorted, k + 1, Len(sorted))

RECURSIVE SortByCount(_, _)
SortByCount(ps, sorted) ==
    IF ps = <<>> THEN sorted
    ELSE SortByCount(Tail(ps), InsertByCount(sorted, Head(ps)))

\* min(dates) / max(dates) over the messages that have a date
DateBefore(a, b) == a.day < b.day \/ (a.day = b.day /\ a.time <= b.time)

MinDate(msgs) ==
    LET dates == {msgs[i].date : i \in 1..Len(msgs)} \ {NoDate}
    IN  IF dates = {} THEN NoDate
        ELSE CHOOSE d \in dates : \A e \in dates : DateBefore(d, e)

MaxDate(msgs) ==
    LET dates == {msgs[i].date : i \in 1..Len(msgs)} \ {NoDate}
    IN  IF dates = {} THEN NoDate
        ELSE CHOOSE d \in dates : \A e \in dates : DateBefore(e, d)

compute_stats_from_messages(msgs) ==
    LET users == SelectSeq(SendersInOrder(msgs), StartsWithUser)
        participants_stats ==
            [k \in 1..Len(users) |->
                ParticipantStats(
                    users[k],
                    Cardinality(PositionsOf(msgs, users[k])),
                    RoundTenths(SumLengths(msgs, PositionsOf(msgs, users[k])),
                                Cardinality(PositionsOf(msgs, users[k]))))]
    IN  ChatStats(Len(msgs), SortByCount(participants_stats, <<>>),
                  MinDate(msgs), MaxDate(msgs))

StatsMessages ==
    { TelegramMessage(<<"USER_1">>, <<"hi">>, NoDate),
      TelegramMessage(<<"USER_1">>, <<"hello">>, DateTime(1, 600)),
      TelegramMessage(<<"USER_2">>, <<"hi">>, DateTime(2, 0)),
      TelegramMessage(<<"USER_2">>, <<"hello">>, NoDate),
      TelegramMessage(<<"USER_3">>, <<"hi">>, DateTime(1, 600)),
      TelegramMessage(<<"Alice">>, <<"hi">>, DateTime(3, 600)),
      TelegramMessage(<<"user_1">>, <<"hi">>, NoDate) }

(***************************************************************************)
(* SpecStats: one call of compute_stats_from_messages.                     *)
(***************************************************************************)
InitStats ==
    /\ pc = "start"
    /\ messages \in SeqsUpTo(StatsMessages, MaxMsgs)
    /\ stats = NoStats
    /\ html_str = <<>>
    /\ snippet = <<>>
    /\ IdleAnalyze /\ IdleRange /\ IdleNoise /\ IdleBudget /\ IdleWhatsapp
    /\ IdleService /\ IdleExtract /\ IdleSave /\ IdleCleanup

ComputeStatsFromMessages ==
    /\ pc = "start"
    /\ stats' = compute_stats_from_messages(messages)
    /\ pc' = "stats"
    /\ UNCHANGED <<snippet, messages, html_str, analyzeVars, rangeVars, noiseVars,
                   budgetVars, saveVars, cleanupVars, extractVars, whatsappVars, serviceVars>>

NextStats == ComputeStatsFromMessages

SpecStats == InitStats /\ [][NextStats]_vars

(***************************************************************************)
(* Claims about compute_stats_from_messages (under SpecStats).             *)
(***************************************************************************)
\* the sender ids of the canonical form
C24_Canonical == {<<"USER_1">>, <<"USER_2">>, <<"USER_3">>}

C24_CountOf(id) ==
    Cardinality({i \in 1..Len(messages) : messages[i].from_name = id})

C24_FirstAt(id) ==
    MinOf({i \in 1..Len(messages) : messages[i].from_name = id})

\* C24: compute_stats_from_messages yields total_messages equal to the
\* number of messages given and one ParticipantStats per distinct sender
\* whose id follows the USER_ convention, with messages_count equal to that
\* sender's number of messages; other senders are excluded, so the counts
\* sum to at most total_messages.  The list is sorted by messages_count
\* descending and equal counts keep their order of first appearance.
C24_StatsPerCanonicalSender ==
    pc = "stats" =>
        LET ps == stats.participants
        IN  /\ stats.total_messages = Len(messages)
            /\ {ps[k].id : k \in 1..Len(ps)} =
                   {messages[i].from_name : i \in 1..Len(messages)} \cap C24_Canonical
            /\ \A k \in 1..Len(ps), l \in 1..Len(ps) : ps[k].id = ps[l].id => k = l
            /\ \A k \in 1..Len(ps) : ps[k].messages_count = C24_CountOf(ps[k].id)
            /\ \A k \in 1..Len(ps), l \in 1..Len(ps) :
                  k < l =>
                      \/ ps[k].messages_count > ps[l].messages_count
                      \/ /\ ps[k].messages_count = ps[l].messages_count
                         /\ C24_FirstAt(ps[k].id) < C24_FirstAt(ps[l].id)
            /\ Cardinality({i \in 1..Len(messages) :
                               messages[i].from_name \in C24_Canonical})
                   <= stats.total_messages

\* USER_2 speaks first, Alice is left out, USER_1 and USER_2 have one
\* message each: USER_2 stays before USER_1
C24_Witness ==
    /\ pc = "stats"
    /\ Len(messages) = 3
    /\ messages[1].from_name = <<"USER_2">>
    /\ messages[2].from_name = <<"Alice">>
    /\ messages[3].from_name = <<"USER_1">>
    /\ Len(stats.participants) = 2
    /\ stats.participants[1].id = <<"USER_2">>
    /\ stats.participants[2].id = <<"USER_1">>
    /\ stats.total_messages = 3

(***************************************************************************)
(* The snippet builder, which lines it takes (under SpecSnippet).          *)
(***************************************************************************)
\* the lines of the eligible messages, in stream order: non-blank text and,
\* with an allow-list, a sender of the list
C25_Lines(ids) ==
    LET at == {i \in 1..Len(messages) :
                  /\ \E k \in 1..Len(messages[i].text) :
                        messages[i].text[k] \notin {SP, NL}
                  /\ ids.given => messages[i].from_name \in ids.ids}
    IN  [k \in 1..Cardinality(at) |->
            LET i == CHOOSE i \in at : Cardinality({j \in at : j < i}) = k - 1
            IN  messages[i].from_name \o <<":", SP>> \o messages[i].text]

\* how many lines are taken: up to the first line with which the snippet
\* would be longer than the budget
C25_Taken(lines) ==
    MaxOf({n \in 0..Len(lines) :
              \A k \in 1..n : StrLen(JoinLines(SubSeq(lines, 1, k))) <= max_chars})

C25_Prefix(lines) == JoinLines(SubSeq(lines, 1, C25_Taken(lines)))

\* C25: _build_conversation_snippet outputs whole "sender: text" lines for
\* a prefix of the eligible messages in stream order: it stops at the first
\* eligible line that would exceed the budget, takes no later line and cuts
\* no line.  The eligible messages are those with non-blank text from
\* senders of the allow-list; only if an allow-list is supplied and
\* applying it yields no line is the snippet built from the messages of
\* all senders.
C25_WholeLinePrefix ==
    pc = "snippet" =>
        snippet =
            IF allowed_ids.given /\ C25_Taken(C25_Lines(allowed_ids)) = 0
            THEN C25_Prefix(C25_Lines(NoIds))
            ELSE C25_Prefix(C25_Lines(allowed_ids))

(***************************************************************************)
(* parse_chat_text.  The chat text is a chunk sequence: the lines of a     *)
(* WhatsApp export, the opening of an html document, whole div.message     *)
(* elements, and runs of 495 and 496 other characters.                     *)
(***************************************************************************)
\* the slice chat_text[:500]
PREFIX_LENGTH == 500

HTML_SIGNATURE == "<html"

DIV_ANN == "<div class=\"message\"><div class=\"body\"><div class=\"from_name\">Ann</div><div class=\"text\">hi</div></div></div>"
DIV_JOINED == "<div class=\"message joined\"><div class=\"body\"><div class=\"text\">yo</div></div></div>"
PAD495 == "<495 characters>"
PAD496 == "<496 characters>"

\* BeautifulSoup(html_str).select("div.message") on the chunks
DivOf(c) ==
    CASE c = DIV_ANN -> MessageDiv(TRUE, Author(<<"Ann">>), Text(<<"hi">>), DATE_NONE)
      [] c = DIV_JOINED -> MessageDiv(TRUE, NoAuthor, Text(<<"yo">>), DATE_NONE)

IsDiv(c) == c \in {DIV_ANN, DIV_JOINED}

MessageDivs(text) ==
    LET divs == SelectSeq(text, IsDiv)
    IN  [k \in 1..Len(divs) |-> DivOf(divs[k])]

\* a signature test that looks at the whole text
SignatureAnywhere(text) ==
    \E i \in 1..Len(text) : LowerChunk(text[i]) = HTML_SIGNATURE

\* "<html" in chat_text[:500].lower(): a signature that lies within the
\* first 500 characters
SignatureInPrefix(text) ==
    \E i \in 1..Len(text) :
        /\ LowerChunk(text[i]) = HTML_SIGNATURE
        /\ StrLen(SubSeq(text, 1, i)) <= PREFIX_LENGTH

\* parse_whatsapp_txt as a function: the loop over the lines left, with the
\* messages emitted and the message in progress
RECURSIVE ParseLines(_, _, _)
ParseLines(lines, msgs, cur) ==
    IF lines = <<>>
    THEN Flush(msgs, cur)
    ELSE IF Strip(Head(lines)) = <<>>
         THEN ParseLines(Tail(lines), msgs, cur)
         ELSE IF IsSystemLine(Head(lines))
              THEN ParseLines(Tail(lines), CloseOnSystemLine(msgs, cur), <<>>)
              ELSE IF _match_whatsapp_header(Head(lines)).matched
                   THEN ParseLines(Tail(lines), Flush(msgs, cur),
                                   OpenMessage(_match_whatsapp_header(Head(lines))))
                   ELSE ParseLines(Tail(lines), msgs,
                                   ContinueMessage(cur, Head(lines)))

parse_whatsapp_txt(text) == ParseLines(splitlines(text), <<>>, <<>>)

\* len([ln for ln in text.splitlines() if ln.strip()])
compute_stats_from_plain_text(text) ==
    LET lines == splitlines(text)
    IN  ChatStats(Cardinality({k \in 1..Len(lines) : Strip(lines[k]) # <<>>}),
                  <<>>, NoDate, NoDate)

\* lines 193-212, from the list the selected parser returned
AfterParser(text, parsed, from, to) ==
    IF parsed # <<>>
    THEN LET filtered == filter_noise_messages(filter_messages_by_date(parsed, from, to))
         IN  [messages |-> filtered, stats |-> compute_stats_from_messages(filtered)]
    ELSE [messages |-> <<>>, stats |-> compute_stats_from_plain_text(text)]

parse_chat_text(text, from, to) ==
    IF SignatureInPrefix(text)
    THEN AfterParser(text, parse_telegram_html(MessageDivs(text)), from, to)
    ELSE AfterParser(text, parse_whatsapp_txt(text), from, to)

LineHtml == <<"<html", ">">>
LineHtmlUpper == <<"<HTML", ">">>
LineHtmlAt495 == <<PAD495, "<html", ">">>
LineHtmlAt496 == <<PAD496, "<html", ">">>
LineDivAnn == <<DIV_ANN>>
LineDivJoined == <<DIV_JOINED>>
LineUserHi == <<STAMP_DASH, SP, "USER_1", ":", SP, "hi">>

ChatLines ==
    { LineHtml, LineHtmlUpper, LineHtmlAt495, LineHtmlAt496, LineDivAnn,
      LineDivJoined, LineAliceHi, LineUserHi, LineBobMedia, LineThanks,
      LineBlank }

(***************************************************************************)
(* SpecChat: one call of parse_chat_text.                                  *)
(***************************************************************************)
InitChat ==
    /\ pc = "start"
    /\ chat_text \in {JoinLines(ls) : ls \in SeqsUpTo(ChatLines, MaxLines)}
    /\ pos = 0
    /\ current = <<>>
    /\ from_date = NoDay
    /\ to_date \in {NoDay, 9}
    /\ by_date = <<>>
    /\ messages = <<>>
    /\ stats = NoStats
    /\ html_str = <<>>
    /\ snippet = <<>>
    /\ IdleAnalyze /\ IdleNoise /\ IdleBudget
    /\ IdleService /\ IdleExtract /\ IdleSave /\ IdleCleanup

ParseChatText ==
    /\ pc = "start"
    /\ \E r \in {parse_chat_text(chat_text, from_date, to_date)} :
          /\ messages' = r.messages
          /\ stats' = r.stats
    /\ pc' = "chat"
    /\ UNCHANGED <<snippet, html_str, analyzeVars, rangeVars, noiseVars,
                   budgetVars, saveVars, cleanupVars, extractVars, whatsappVars, serviceVars>>

NextChat == ParseChatText

SpecChat == InitChat /\ [][NextChat]_vars

(***************************************************************************)
(* Claims about parse_chat_text (under SpecChat).                          *)
(***************************************************************************)
\* the number of characters before chunk i
RECURSIVE C26_Before(_)
C26_Before(i) == IF i = 1 THEN 0 ELSE C26_Before(i - 1) + CharLen(chat_text[i - 1])

\* "<html" in any case lies within the first 500 characters
C26_Markup ==
    \E i \in 1..Len(chat_text) :
        /\ chat_text[i] \in {"<html", "<HTML"}
        /\ C26_Before(i) + 5 <= 500

\* what the selected parser yields
C26_Parsed ==
    IF C26_Markup
    THEN parse_telegram_html(MessageDivs(chat_text))
    ELSE parse_whatsapp_txt(chat_text)

C26_NonBlankLines ==
    Cardinality({k \in 1..Len(splitlines(chat_text)) :
                    \E n \in 1..Len(splitlines(chat_text)[k]) :
                        splitlines(chat_text)[k][n] \notin {SP, NL}})

\* C26: parse_chat_text selects the markup parser iff "<html" occurs, in
\* any case, within the first 500 characters, and the line parser
\* otherwise; if the selected parser yields no message, the result is the
\* empty message list with statistics whose total_messages is the number
\* of non-blank lines of the raw text, with no participants and no
\* timestamps.
C26_ParserSelectionAndFallback ==
    pc = "chat" =>
        \A parsed \in {C26_Parsed} :
            /\ parsed = <<>> =>
                  /\ messages = <<>>
                  /\ stats.total_messages = C26_NonBlankLines
                  /\ stats.participants = <<>>
                  /\ stats.first_message_at = NoDate
                  /\ stats.last_message_at = NoDate
            /\ parsed # <<>> =>
                  /\ messages =
                        filter_noise_messages(
                            filter_messages_by_date(parsed, from_date, to_date))
                  /\ stats.total_messages = Len(messages)

\* the signature starts at character 497: the line parser is selected,
\* finds no message in the three lines, and the lines are counted
C26_Witness ==
    /\ pc = "chat"
    /\ chat_text = JoinLines(<<LineHtmlAt496, LineDivAnn, LineBlank>>)
    /\ messages = <<>>
    /\ stats.total_messages = 2
    /\ stats.participants = <<>>

(***************************************************************************)
(* The rate limiter under the server's concurrency.  The handlers written  *)
(* with async def (analyze_chat, send_feedback) run one after another on   *)
(* the event loop; the admin handlers are plain functions and run on pool  *)
(* threads, at the same time as each other and as the event loop.  Every   *)
(* with self._lock block is one step; _save_to_file is two steps, the      *)
(* snapshot taken under the lock and the write of the file outside it.     *)
(***************************************************************************)
\* the client IP of the requests and of the admin calls
CLIENT_IP == "1.2.3.4"

\* _make_default_record: the counters of a record
_make_default_record(limit) ==
    [requests |-> 0, analyze_used |-> 0, analyze_limit |-> limit,
     feedback_bonus_used |-> FALSE]

\* self._ip_stats[client_ip] of the defaultdict: the record read ...
Record(ip_stats_, ip, limit) ==
    IF ip \in DOMAIN ip_stats_ THEN ip_stats_[ip] ELSE _make_default_record(limit)

\* ... and the dict after the access, with the record r in it
WithRecord(ip_stats_, ip, r) ==
    [i \in DOMAIN ip_stats_ \cup {ip} |-> IF i = ip THEN r ELSE ip_stats_[i]]

\* self._ip_stats.pop(client_ip)
WithoutRecord(ip_stats_, ip) ==
    [i \in DOMAIN ip_stats_ \ {ip} |-> ip_stats_[i]]

\* the snapshot of _save_to_file, as json.dump writes it
Snapshot(ip_stats_) ==
    [i \in DOMAIN ip_stats_ |->
        [requests |-> ip_stats_[i].requests,
         analyze_used |-> ip_stats_[i].analyze_used,
         analyze_limit |-> ip_stats_[i].analyze_limit,
         feedback_bonus_used |-> ip_stats_[i].feedback_bonus_used]]

\* _load_from_file: the records of a file
_load_from_file(file) ==
    [i \in DOMAIN file |->
        [_make_default_record(0) EXCEPT
            !.requests = file[i].requests,
            !.analyze_used = file[i].analyze_used,
            !.analyze_limit = file[i].analyze_limit,
            !.feedback_bonus_used = file[i].feedback_bonus_used]]

EVENT_LOOP == 0
PoolThreads == 1..NPoolThreads
Workers == {EVENT_LOOP} \cup PoolThreads

IdleWorker == [at |-> "idle", op |-> "none", next |-> "none",
               snapshot |-> <<>>, calls |-> 0]

InitSave ==
    /\ pc = "server"
    /\ ip_stats_file = <<>>
    /\ ip_stats = _load_from_file(<<>>)
    /\ default_limit \in 0..MaxLimit
    /\ feedback_bonus \in 0..MaxBonus
    /\ payment_enabled \in BOOLEAN
    /\ workers = [w \in Workers |-> IdleWorker]
    /\ rec = DefaultRecord(0)
    /\ request = NoRequest
    /\ grant_calls = 0
    /\ snippet = <<>>
    /\ messages = <<>>
    /\ IdleAnalyze /\ IdleRange /\ IdleNoise /\ IdleBudget /\ IdleWhatsapp
    /\ IdlePayment /\ IdleThreads /\ IdleExtract /\ IdleParser /\ IdleCleanup

SaveFrame ==
    UNCHANGED <<pc, snippet, messages, analyzeVars, rangeVars, noiseVars,
                budgetVars, whatsappVars, serviceVars, extractVars,
                parserVars, cleanupVars, default_limit>>

\* a handler starts on worker w
Starts(w) ==
    /\ workers[w].at = "idle"
    /\ workers[w].calls < MaxCalls

\* the with block of an operation has put record r; _save_to_file follows
Saves(w, op, next, r) ==
    /\ ip_stats' = WithRecord(ip_stats, CLIENT_IP, r)
    /\ workers' = [workers EXCEPT ![w].at = "snapshot", ![w].op = op,
                                  ![w].next = next]

\* analyze_chat, payment disabled: check_and_increment_analysis; on False
\* the handler reads the record for its log line and answers 429
CheckAndIncrement(w) ==
    /\ w = EVENT_LOOP
    /\ Starts(w)
    /\ ~payment_enabled
    /\ \E r \in {check_and_increment_analysis(
                    Record(ip_stats, CLIENT_IP, default_limit))} :
          /\ ip_stats' = WithRecord(ip_stats, CLIENT_IP, r.rec)
          /\ workers' = [workers EXCEPT
                ![w].at = IF r.ret THEN "snapshot" ELSE "get_ip_stats",
                ![w].op = "analyze_chat",
                ![w].next = IF r.ret THEN "track_request" ELSE "none",
                ![w].calls = @ + 1]
    /\ UNCHANGED ip_stats_file
    /\ SaveFrame

\* analyze_chat, payment enabled: get_ip_stats for the remaining analyses
ReadRemaining(w) ==
    /\ w = EVENT_LOOP
    /\ Starts(w)
    /\ payment_enabled
    /\ ip_stats' = WithRecord(ip_stats, CLIENT_IP,
                              Record(ip_stats, CLIENT_IP, default_limit))
    /\ workers' = [workers EXCEPT ![w].at = "increment",
                                  ![w].op = "analyze_chat",
                                  ![w].calls = @ + 1]
    /\ UNCHANGED ip_stats_file
    /\ SaveFrame

\* analyze_chat, payment enabled: increment_analysis_used
IncrementAnalysisUsed(w) ==
    /\ workers[w].at = "increment"
    /\ Saves(w, "analyze_chat", "track_request",
             increment_analysis_used(Record(ip_stats, CLIENT_IP, default_limit)))
    /\ UNCHANGED ip_stats_file
    /\ SaveFrame

\* analyze_chat: track_request
TrackRequest(w) ==
    /\ workers[w].at = "track_request"
    /\ \E r \in {Record(ip_stats, CLIENT_IP, default_limit)} :
          Saves(w, "analyze_chat", "analysis",
                [r EXCEPT !.requests = @ + 1])
    /\ UNCHANGED ip_stats_file
    /\ SaveFrame

\* analyze_chat: the analysis is no fallback; the record is read for the
\* log line
AnalysisDone(w) ==
    /\ workers[w].at = "analysis"
    /\ workers' = [workers EXCEPT ![w].at = "get_ip_stats"]
    /\ UNCHANGED <<ip_stats, ip_stats_file>>
    /\ SaveFrame

\* analyze_chat: the analysis is the fallback, decrement_analysis_used
AnalysisFallback(w) ==
    /\ workers[w].at = "analysis"
    /\ Saves(w, "rollback", "get_ip_stats",
             decrement_analysis_used(Record(ip_stats, CLIENT_IP, default_limit)))
    /\ UNCHANGED ip_stats_file
    /\ SaveFrame

\* send_feedback: grant_feedback_bonus
GrantFeedbackBonus(w) ==
    /\ w = EVENT_LOOP
    /\ Starts(w)
    /\ ip_stats' = WithRecord(ip_stats, CLIENT_IP,
            grant_feedback_bonus(Record(ip_stats, CLIENT_IP, default_limit),
                                 feedback_bonus).rec)
    /\ workers' = [workers EXCEPT ![w].at = "snapshot",
                                  ![w].op = "send_feedback",
                                  ![w].next = "get_ip_stats",
                                  ![w].calls = @ + 1]
    /\ UNCHANGED ip_stats_file
    /\ SaveFrame

\* get_ip_stats at the end of analyze_chat and send_feedback
GetIpStats(w) ==
    /\ workers[w].at = "get_ip_stats"
    /\ ip_stats' = WithRecord(ip_stats, CLIENT_IP,
                              Record(ip_stats, CLIENT_IP, default_limit))
    /\ workers' = [workers EXCEPT ![w].at = "idle"]
    /\ UNCHANGED ip_stats_file
    /\ SaveFrame

\* admin_add_credits (n > 0): add_credits
AddCredits(w) ==
    /\ w \in PoolThreads
    /\ Starts(w)
    /\ \E n \in {1} :
          ip_stats' = WithRecord(ip_stats, CLIENT_IP,
                [Record(ip_stats, CLIENT_IP, default_limit)
                    EXCEPT !.analyze_limit = @ + n])
    /\ workers' = [workers EXCEPT ![w].at = "snapshot",
                                  ![w].op = "add_credits",
                                  ![w].next = "idle",
                                  ![w].calls = @ + 1]
    /\ UNCHANGED ip_stats_file
    /\ SaveFrame

\* admin_delete_ip: delete_ip
DeleteIp(w) ==
    /\ w \in PoolThreads
    /\ Starts(w)
    /\ ip_stats' = WithoutRecord(ip_stats, CLIENT_IP)
    /\ workers' = [workers EXCEPT ![w].at = "snapshot",
                                  ![w].op = "delete_ip",
                                  ![w].next = "idle",
                                  ![w].calls = @ + 1]
    /\ UNCHANGED ip_stats_file
    /\ SaveFrame

\* _save_to_file, with self._lock: the snapshot
TakeSnapshot(w) ==
    /\ workers[w].at = "snapshot"
    /\ workers' = [workers EXCEPT ![w].at = "write",
                                  ![w].snapshot = Snapshot(ip_stats)]
    /\ UNCHANGED <<ip_stats, ip_stats_file>>
    /\ SaveFrame

\* _save_to_file, outside the lock: json.dump(snapshot, f)
WriteFile(w) ==
    /\ workers[w].at = "write"
    /\ ip_stats_file' = workers[w].snapshot
    /\ workers' = [workers EXCEPT ![w].at = workers[w].next,
                                  ![w].snapshot = <<>>]
    /\ UNCHANGED ip_stats
    /\ SaveFrame

NextSave ==
    \E w \in Workers :
        \/ CheckAndIncrement(w)
        \/ ReadRemaining(w)
        \/ IncrementAnalysisUsed(w)
        \/ TrackRequest(w)
        \/ AnalysisDone(w)
        \/ AnalysisFallback(w)
        \/ GrantFeedbackBonus(w)
        \/ GetIpStats(w)
        \/ AddCredits(w)
        \/ DeleteIp(w)
        \/ TakeSnapshot(w)
        \/ WriteFile(w)

SpecSave == InitSave /\ [][NextSave]_vars

(***************************************************************************)
(* Claims about the rate limiter under concurrency (under SpecSave).       *)
(***************************************************************************)
C27_Completed == pc = "server" /\ \A w \in Workers : workers[w].at = "idle"

\* what a restart would find for the IP, and what the server holds for it
C27_Reloaded == Record(_load_from_file(ip_stats_file), CLIENT_IP, default_limit)
C27_InMemory == Record(ip_stats, CLIENT_IP, default_limit)

\* C27: after any interleaving of concurrent rate-limiter operations has
\* run to completion, the persisted ip_stats.json equals the final
\* in-memory state, so no update is lost on reload.
C27_FileEqualsMemory ==
    C27_Completed => C27_Reloaded = C27_InMemory

\* C30: in every reachable state analyze_used >= 0 for every IP; with
\* payment disabled and limits only raised, analyze_used <= analyze_limit
\* for every IP, under any interleaving of analysis requests, fallback
\* rollbacks and admin deletions.
C30_UsedWithinLimit ==
    pc = "server" =>
        \A ip \in DOMAIN ip_stats :
            /\ ip_stats[ip].analyze_used >= 0
            /\ ~payment_enabled =>
                  ip_stats[ip].analyze_used <= ip_stats[ip].analyze_limit

\* a rollback has met the fresh record left by a deletion that came after
\* the request was counted and tracked
C30_Witness ==
    /\ pc = "server"
    /\ workers[EVENT_LOOP].op = "rollback"
    /\ workers[EVENT_LOOP].at = "snapshot"
    /\ CLIENT_IP \in DOMAIN ip_stats
    /\ ip_stats[CLIENT_IP].requests = 0
    /\ ip_stats[CLIENT_IP].analyze_used = 0
    /\ ip_stats[CLIENT_IP].analyze_limit > 0
    /\ ~payment_enabled

(***************************************************************************)
(* create_preview: the response analyze_chat returns in place of a stored  *)
(* analysis.  _truncate_text keeps max(int(len * 0.1), 50) characters and  *)
(* appends an ellipsis; the placeholder text (165 characters) is the only  *)
(* text of the model longer than 50 characters.  The lists keep            *)
(* max(int(n * 0.1), 1) items and the recommendations the first one.       *)
(* is_fallback and error_message are not passed to the constructor and     *)
(* take the defaults of AnalyzeResponse.                                   *)
(***************************************************************************)
\* fallback_text[:50]
fallback_text_cut == "K sozhaleniyu, proizoshla oshibka pri obrabotke"

_truncate_text(text) ==
    IF text = fallback_text THEN <<fallback_text_cut, "...">> ELSE text

_truncate_list(items) ==
    IF items = <<>>
    THEN items
    ELSE SubSeq(items, 1, MaxOf({Len(items) \div 10, 1}))

create_preview(full_analysis) ==
    [participants |->
        [k \in DOMAIN full_analysis.participants |->
            [full_analysis.participants[k] EXCEPT
                !.summary = _truncate_text(@)]],
     relationship |->
        [full_analysis.relationship EXCEPT
            !.description = _truncate_text(@),
            !.red_flags = _truncate_list(@),
            !.green_flags = _truncate_list(@)],
     recommendations |->
        IF full_analysis.recommendations = <<>>
        THEN <<>>
        ELSE <<[Head(full_analysis.recommendations) EXCEPT
                    !.text = _truncate_text(@)]>>,
     is_preview |-> TRUE,
     payment_required |-> TRUE,
     is_fallback |-> FALSE,
     error_message |-> None]

(***************************************************************************)
(* Claims about the payable preview (under SpecPayment).                   *)
(***************************************************************************)
\* the last request was an analysis answered 200 in payment mode
C28_Answered ==
    /\ pc = "serving"
    /\ payment_enabled
    /\ request.op = "analyze_chat"
    /\ request.status = 200

\* the response holds the placeholder content: the placeholder participant
\* with the placeholder text as its traits
C28_PlaceholderContent(r) ==
    /\ Len(r.participants) = Len(dummy_participants)
    /\ \A k \in DOMAIN r.participants :
          /\ r.participants[k].id = dummy_participants[k].id
          /\ r.participants[k].traits = dummy_participants[k].traits

\* C28: in payment mode an analysis that ended in the fallback placeholder
\* is never stored and offered as a payable preview (no reply with
\* payment_required and an analysis_id is derived from a result whose
\* is_fallback is true), and the reply never reports is_fallback = false
\* for placeholder content.
C28_NoPayableFallback ==
    C28_Answered =>
        /\ (request.preview /\ request.analysis_id # NoId) =>
              /\ create_preview(response).payment_required
              /\ ~response.is_fallback
        /\ \A returned \in {IF request.preview
                            THEN create_preview(response)
                            ELSE response} :
              C28_PlaceholderContent(returned) => returned.is_fallback

(***************************************************************************)
(* SpecStorage: the analysis storage under saves, webhooks, releases and   *)
(* cleanups.  The storage is called from handlers of the event loop only,  *)
(* so each call is one step.  An id is a fresh random token: no id is      *)
(* generated twice.                                                        *)
(***************************************************************************)
StoredAnalyses ==
    {analyze_chat_text(RequestSnippet, gen) : gen \in RequestGenerations}

InitStorage ==
    /\ InitService
    /\ payment_enabled
    /\ feedback_bonus = 0

\* analyze_chat, payment branch: save_analysis under a fresh id
SaveAnalysis ==
    /\ pc = "serving"
    /\ Cardinality(generated) < MaxAnalyses
    /\ \E analysis \in StoredAnalyses :
          \E id \in {Cardinality(generated) + 1} :
              /\ generated' = generated \cup {id}
              /\ storage' = save_analysis_as(storage, id, analysis)
              /\ request' = [Reply("analyze_chat", 200, rec) EXCEPT
                                !.analysis_id = id, !.preview = TRUE]
    /\ UNCHANGED <<pc, snippet, messages, analyzeVars, rec, feedback_bonus,
                   payment_enabled, grant_calls, webhook_ok, cleaned_up,
                   rangeVars, noiseVars, budgetVars, saveVars, parserVars,
                   extractVars, whatsappVars, threadVars>>

\* cleanup_old_analyses(days), at any time
CleanupOldAnalyses ==
    /\ pc = "serving"
    /\ \E old \in SUBSET (1..MaxAnalyses) :
          \E left \in {cleanup_old_analyses(storage, old)} :
              /\ storage' = left
              /\ cleaned_up' =
                    CleanupCall(old,
                        Cardinality({i \in DOMAIN storage :
                                        storage[i].saved /\ ~left[i].saved}))
    /\ UNCHANGED <<pc, snippet, messages, analyzeVars, rec, feedback_bonus,
                   payment_enabled, grant_calls, webhook_ok, request,
                   generated, rangeVars, noiseVars, budgetVars, saveVars,
                   parserVars, extractVars, whatsappVars, threadVars>>

NextStorage ==
    \/ SaveAnalysis
    \/ PaymentWebhook
    \/ GetFullAnalysis
    \/ CleanupOldAnalyses

SpecStorage == InitStorage /\ [][NextStorage]_vars

(***************************************************************************)
(* Claims about the paid flag (under SpecStorage).                         *)
(***************************************************************************)
C29_Released(store, id) == get_full_analysis(store, id).status = 200

\* C29: for every stored analysis the paid flag starts false at
\* save_analysis, changes only from false to true and never reverts;
\* cleanup_old_analyses deletes only unpaid analyses; so once
\* get_full_analysis has succeeded for an id it succeeds on every later
\* call, under any interleaving of save, mark_as_paid and cleanup.
C29_PaidIsMonotone ==
    [][\A id \in 1..MaxAnalyses :
          /\ (~storage[id].saved /\ storage'[id].saved) => ~storage'[id].paid
          /\ (storage[id].saved /\ storage[id].paid) =>
                (storage'[id].saved /\ storage'[id].paid)
          /\ (storage[id].saved /\ ~storage'[id].saved) => ~storage[id].paid
          /\ C29_Released(storage, id) => C29_Released(storage', id)]_vars

\* a released analysis was old at the last cleanup and is released again
C29_Witness ==
    /\ pc = "serving"
    /\ cleaned_up.called
    /\ \E id \in cleaned_up.old :
          /\ id \in generated
          /\ storage[id].paid
          /\ request.op = "get_full_analysis"
          /\ request.analysis_id = id
          /\ request.status = 200

====
